---- MODULE Spec2Model ----
(***************************************************************************)
(* The knowledge/learning subsystem of PortKiller: the fingerprint-keyed  *)
(* knowledge base (learning.rs, types.rs, builtin.rs), the fallback        *)
(* classifier (fallback.rs), the remote classifier's response handling     *)
(* (ica.rs) and the learning worker (worker.rs).                           *)
(*                                                                         *)
(* Representation.  A Rust String is a sequence of characters; a character *)
(* is a TLA+ string: one ASCII character, or "E2" / "C3", which stand for  *)
(* a character whose UTF-8 encoding has two / three bytes, and "BT", which *)
(* stands for the backtick.  Option<T> is a sequence of length 0 (None) or *)
(* 1 (Some).  A HashMap is a function.                                     *)
(***************************************************************************)
EXTENDS Integers, Sequences, FiniteSets, TLC

VARIABLES
    kb,         \* the KnowledgeBase the store operations act on
    now,        \* the wall clock now_timestamp() reads (seconds)
    config,     \* the LearningConfig of this run
    lastOp,     \* history: the last store operation, its arguments and result
    streak,     \* history: hash key -> record_sighting calls since first sighting
    reached,    \* history: fingerprints whose pending entry reached min_sightings
                \*          with no store_result for them since
    wpc,        \* the worker thread's position in spawn_learning_worker
    clock,      \* the monotonic clock Instant::now() reads (seconds)
    last_call,  \* the worker's last_call
    wake,       \* the instant the worker's sleep ends
    queue,      \* the request channel: AnalysisRequests sent and not yet received
    senders,    \* the producers that still hold a Sender of the request channel
    result_rx,  \* whether the Receiver of the result channel is alive
    results,    \* the result channel: every AnalysisResult sent, in order
    cur,        \* the request (and, once classified, the result) in the worker's hands
    credential, \* SERVICE_KEY, the process-wide OnceLock
    inflight,   \* history: the analyze calls entered and not yet left
    sent,       \* history: the number of requests sent by the producers
    log,        \* history: one record per request the worker has received
    last_end,   \* history: when the last classification ended (-1: none yet)
    panic_at,   \* history: where the worker thread panicked
    file,       \* the knowledge file on disk
    spc,        \* the position of the process that owns the knowledge base
    saving,     \* the save_knowledge_base call in progress
    loaded,     \* what load_knowledge_base returned to this process
    callers,    \* the threads that call get_service_key: position and value seen
    running,    \* whether a thread is inside the initializer of SERVICE_KEY
    fetches,    \* history: the number of times the setec fetch was started
    observed,   \* history: every value a call of get_service_key has returned
    call        \* a call of one of the pure functions: its argument and result

(***************************************************************************)
(* Bounds of the model.                                                    *)
(***************************************************************************)
MaxNow == 1
MaxSightings == 3
MaxClock == 3
MaxRequests == 2
InstantBits == 5

(***************************************************************************)
(* Option and HashMap helpers.                                             *)
(***************************************************************************)
None == <<>>
Some(x) == <<x>>
IsSome(o) == Len(o) = 1
Unwrap(o) == o[1]

EmptyMap == [k \in {} |-> 0]
\* (mutant: the insert forgets the other keys)
MapInsert_alone(m, k, v) == [x \in {k} |-> v]

MapInsert(m, k, v) == [x \in DOMAIN m \cup {k} |-> IF x = k THEN v ELSE m[x]]
MapRemove(m, k) == [x \in DOMAIN m \ {k} |-> m[x]]

(***************************************************************************)
(* Strings of the model's inputs.                                          *)
(***************************************************************************)
S_node == <<"n", "o", "d", "e">>
S_postgres == <<"p", "o", "s", "t", "g", "r", "e", "s">>
S_dss == <<"d", "s", "s">>
S_dss_app == <<"d", "s", "s", "_", "a", "p", "p">>

(***************************************************************************)
(* types.rs: ProcessFingerprint.                                           *)
(***************************************************************************)
FingerprintNew(command) ==
    [command |-> command, default_port |-> None, project_hash |-> None,
     container_prefix |-> None]

with_port(fp, port) == [fp EXCEPT !.default_port = Some(port)]

with_container_prefix(fp, prefix) == [fp EXCEPT !.container_prefix = Some(prefix)]

\* (mutant: a hasher keyed per process run, as HashMap's RandomState is; the
\* key then varies with the moment of the call)
hash_key_random_state(fp) ==
    <<fp.command, fp.default_port, fp.project_hash, fp.container_prefix, now>>

\* hash_key feeds the four fields, in this order, to a fixed-key SipHash and
\* prints the 64-bit digest as 16 hex digits.  The digest is modelled by the
\* tuple of the hashed fields: a function of exactly these four fields that
\* is collision-free on the fingerprints of the model.
hash_key(fp) ==
    <<fp.command, fp.default_port, fp.project_hash, fp.container_prefix>>

(***************************************************************************)
(* types.rs: AnalysisContext (the fields the modelled code reads).         *)
(***************************************************************************)
AnalysisContextNew(command) ==
    [command |-> command, port |-> None, project_name |-> None,
     container_name |-> None, container_prefix |-> None, full_command |-> None]

KnowledgeBaseDefault == [version |-> 0, entries |-> EmptyMap, pending_analysis |-> EmptyMap]

(***************************************************************************)
(* learning.rs: record_sighting.  Returns the new knowledge base and the   *)
(* Option<AnalysisContext> result.                                         *)
(***************************************************************************)
\* (mutant: the threshold is passed, not reached)
PromoteAt_past(sightings, min_sightings) == sightings > min_sightings

\* (mutant: the context is handed out only when the threshold is met exactly)
PromoteAt_once(sightings, min_sightings) == sightings = min_sightings

PromoteAt(sightings, min_sightings) == sightings >= min_sightings

\* (mutant: a new fingerprint is always given a pending entry)
PendingRoom_always(pending, max_pending) == TRUE

\* (mutant: a full map still takes one more entry)
PendingRoom_inclusive(pending, max_pending) == Cardinality(DOMAIN pending) <= max_pending

PendingRoom(pending, max_pending) == Cardinality(DOMAIN pending) < max_pending

\* (mutant: a sighting of a known fingerprint also stamps the entry)
KnownSighting_stamped(entry, t) == [entry EXCEPT !.sightings = @ + 1, !.updated_at = t + 1]

\* learning.rs:19-21: the sighting of a fingerprint that has a KnowledgeEntry.
KnownSighting(entry, t) == [entry EXCEPT !.sightings = @ + 1]

\* (mutant: the promoted entry is taken out of the pending map)
PendingAfterSighting_taken(pending, hash, p, min_sightings) ==
    IF PromoteAt(p.sightings, min_sightings)
    THEN MapRemove(pending, hash)
    ELSE [pending EXCEPT ![hash] = p]

\* learning.rs:25-35: the pending map after the sighting of a pending
\* fingerprint; p is its updated entry.
PendingAfterSighting(pending, hash, p, min_sightings) == [pending EXCEPT ![hash] = p]

\* (mutant: a repeat sighting stores the context it was called with)
record_sighting_refreshing(base, fingerprint, context, cfg, t) ==
    LET hash == hash_key(fingerprint) IN
    IF hash \in DOMAIN base.entries
    THEN [kb |-> [base EXCEPT !.entries[hash] = KnownSighting(@, t)], ret |-> None]
    ELSE IF hash \in DOMAIN base.pending_analysis
    THEN LET p == [base.pending_analysis[hash] EXCEPT
                       !.sightings = @ + 1, !.last_seen = t, !.context = context]
         IN [kb |-> [base EXCEPT !.pending_analysis[hash] = p],
             ret |-> IF PromoteAt(p.sightings, cfg.min_sightings)
                     THEN Some(p.context) ELSE None]
    ELSE IF PendingRoom(base.pending_analysis, cfg.max_pending)
    THEN [kb |-> [base EXCEPT !.pending_analysis =
                      MapInsert(@, hash,
                                [fingerprint |-> fingerprint, sightings |-> 1,
                                 first_seen |-> t, last_seen |-> t,
                                 context |-> context])],
          ret |-> None]
    ELSE [kb |-> base, ret |-> None]

record_sighting(base, fingerprint, context, cfg, t) ==
    LET hash == hash_key(fingerprint) IN
    IF hash \in DOMAIN base.entries
    THEN [kb |-> [base EXCEPT !.entries[hash] = KnownSighting(@, t)], ret |-> None]
    ELSE IF hash \in DOMAIN base.pending_analysis
    THEN LET p == [base.pending_analysis[hash] EXCEPT
                       !.sightings = @ + 1, !.last_seen = t]
         IN [kb |-> [base EXCEPT !.pending_analysis =
                         PendingAfterSighting(@, hash, p, cfg.min_sightings)],
             ret |-> IF PromoteAt(p.sightings, cfg.min_sightings)
                     THEN Some(p.context) ELSE None]
    ELSE IF PendingRoom(base.pending_analysis, cfg.max_pending)
    THEN [kb |-> [base EXCEPT !.pending_analysis =
                      MapInsert(@, hash,
                                [fingerprint |-> fingerprint, sightings |-> 1,
                                 first_seen |-> t, last_seen |-> t,
                                 context |-> context])],
          ret |-> None]
    ELSE [kb |-> base, ret |-> None]

(***************************************************************************)
(* learning.rs: store_result.                                              *)
(***************************************************************************)
\* (mutant: the count of the pending entry is not carried forward)
CarriedSightings_reset(pending, hash) == 1

CarriedSightings(pending, hash) ==
    IF hash \in DOMAIN pending THEN pending[hash].sightings ELSE 1

\* (mutant: the pending entry is left in place)
PendingAfterStore_kept(pending, hash) == pending

PendingAfterStore(pending, hash) == MapRemove(pending, hash)

store_result(base, fingerprint, response, source, t) ==
    LET hash == hash_key(fingerprint)
        sightings == CarriedSightings(base.pending_analysis, hash)
        entry == [fingerprint |-> fingerprint,
                  display_name |-> response.display_name,
                  description |-> response.description,
                  category |-> response.category,
                  group_id |-> response.group_hint,
                  confidence |-> response.confidence,
                  source |-> source,
                  sightings |-> sightings,
                  updated_at |-> t]
    IN [base EXCEPT !.pending_analysis = PendingAfterStore(@, hash),
                    !.entries = MapInsert(@, hash, entry)]

(***************************************************************************)
(* learning.rs: cleanup_stale_pending.                                     *)
(***************************************************************************)
\* (mutant: an entry last seen exactly at the cutoff is kept)
StaleKeep_atCutoff(last_seen, cutoff) == last_seen >= cutoff

StaleKeep(last_seen, cutoff) == last_seen > cutoff

\* (mutant: what the cleanup drops is filed as known)
cleanup_stale_pending_files(base, max_age_secs, t) ==
    LET cutoff == t - max_age_secs
        kept == {h \in DOMAIN base.pending_analysis :
                    StaleKeep(base.pending_analysis[h].last_seen, cutoff)}
        dropped == DOMAIN base.pending_analysis \ kept
    IN [base EXCEPT
            !.pending_analysis = [h \in kept |-> @[h]],
            !.entries = [h \in DOMAIN @ \cup dropped |->
                            IF h \in DOMAIN @ THEN @[h] ELSE base.pending_analysis[h]]]

cleanup_stale_pending(base, max_age_secs, t) ==
    LET cutoff == t - max_age_secs
        kept == {h \in DOMAIN base.pending_analysis :
                    StaleKeep(base.pending_analysis[h].last_seen, cutoff)}
    IN [base EXCEPT !.pending_analysis = [h \in kept |-> @[h]]]

(***************************************************************************)
(* Rust string operations on character sequences.  Indices into a &str are *)
(* byte offsets; chars().enumerate() counts characters.                    *)
(***************************************************************************)
Utf8Len(c) == IF c \in {"E2", "SZ"} THEN 2 ELSE IF c = "C3" THEN 3 ELSE 1

\* str::len of the first n characters of s.
ByteOffset(s, n) ==
    n + Cardinality({i \in 1..n : Utf8Len(s[i]) = 2})
      + 2 * Cardinality({i \in 1..n : Utf8Len(s[i]) = 3})

ByteLen(s) == ByteOffset(s, Len(s))

\* The number of characters of s that end at or before byte offset b when b
\* is a character boundary of s (str::is_char_boundary), and -1 when it is not.
CharsBefore(s, b) ==
    LET at == {n \in 0..Len(s) : ByteOffset(s, n) = b}
    IN IF at = {} THEN -1 ELSE CHOOSE n \in at : TRUE

\* &s[from..to] by byte offsets: the slice, or a panic when an offset is out
\* of range or inside a character.
SliceBytes(s, from, to) ==
    LET a == CharsBefore(s, from)
        b == CharsBefore(s, to)
    IN IF a = -1 \/ b = -1 \/ from > to
       THEN [panic |-> TRUE, s |-> <<>>]
       ELSE [panic |-> FALSE, s |-> SubSeq(s, a + 1, b)]

IsWhitespace(c) == c \in {" ", "\n", "\t", "\r"}

RECURSIVE TrimStart(_)
TrimStart(s) ==
    IF s # <<>> /\ IsWhitespace(Head(s)) THEN TrimStart(Tail(s)) ELSE s

RECURSIVE TrimEnd(_)
TrimEnd(s) ==
    IF s # <<>> /\ IsWhitespace(s[Len(s)]) THEN TrimEnd(SubSeq(s, 1, Len(s) - 1)) ELSE s

Trim(s) == TrimEnd(TrimStart(s))

StartsWith(s, pat) == Len(s) >= Len(pat) /\ SubSeq(s, 1, Len(pat)) = pat

\* The character positions (from 1) at which pat occurs in s.
Occurrences(s, pat) ==
    {i \in 1..(Len(s) - Len(pat) + 1) : SubSeq(s, i, i + Len(pat) - 1) = pat}

Contains(s, pat) == Occurrences(s, pat) # {}

Min(S) == CHOOSE x \in S : \A y \in S : x <= y
Max(S) == CHOOSE x \in S : \A y \in S : x >= y

\* str::find / str::rfind: the byte offset of the first / last occurrence.
Find(s, pat) ==
    IF Occurrences(s, pat) = {} THEN None
    ELSE Some(ByteOffset(s, Min(Occurrences(s, pat)) - 1))

RFind(s, pat) ==
    IF Occurrences(s, pat) = {} THEN None
    ELSE Some(ByteOffset(s, Max(Occurrences(s, pat)) - 1))

LowerCase ==
    <<"a", "b", "c", "d", "e", "f", "g", "h", "i", "j", "k", "l", "m",
      "n", "o", "p", "q", "r", "s", "t", "u", "v", "w", "x", "y", "z">>
UpperCase ==
    <<"A", "B", "C", "D", "E", "F", "G", "H", "I", "J", "K", "L", "M",
      "N", "O", "P", "Q", "R", "S", "T", "U", "V", "W", "X", "Y", "Z">>

\* char::to_uppercase / to_lowercase; "E2" and "C3" stand for uncased characters.
ToUpperChar(c) ==
    IF \E i \in 1..26 : LowerCase[i] = c
    THEN UpperCase[CHOOSE i \in 1..26 : LowerCase[i] = c] ELSE c

ToLowerChar(c) ==
    IF \E i \in 1..26 : UpperCase[i] = c
    THEN LowerCase[CHOOSE i \in 1..26 : UpperCase[i] = c] ELSE c

\* char::to_uppercase yields one character or several: "SZ" stands for the
\* sharp s, whose uppercase is the two letters SS.
ToUppercase(c) == IF c = "SZ" THEN <<"S", "S">> ELSE <<ToUpperChar(c)>>

ToLowercase(s) == [i \in 1..Len(s) |-> ToLowerChar(s[i])]

(***************************************************************************)
(* fallback.rs: the fallback classifier.                                   *)
(***************************************************************************)
IsWordSeparator(c) == c \in {"_", "-", " "}

\* split on the separators, drop the empty words: the words of s, in order.
RECURSIVE SplitWords(_, _, _)
SplitWords(s, i, word) ==
    IF i > Len(s)
    THEN IF word = <<>> THEN <<>> ELSE <<word>>
    ELSE IF IsWordSeparator(s[i])
    THEN (IF word = <<>> THEN <<>> ELSE <<word>>) \o SplitWords(s, i + 1, <<>>)
    ELSE SplitWords(s, i + 1, Append(word, s[i]))

\* (mutant: title case, the letters after the first are lowercased)
CapitalizeWord_title(word) == ToUppercase(Head(word)) \o ToLowercase(Tail(word))

\* fallback.rs:71-76: first.to_uppercase().chain(chars).collect()
CapitalizeWord(word) == ToUppercase(Head(word)) \o Tail(word)

RECURSIVE JoinWords(_, _)
JoinWords(words, sep) ==
    IF words = <<>> THEN <<>>
    ELSE IF Len(words) = 1 THEN words[1]
    ELSE words[1] \o sep \o JoinWords(Tail(words), sep)

capitalize_words(s) ==
    LET words == SplitWords(s, 1, <<>>)
    IN JoinWords([i \in 1..Len(words) |-> CapitalizeWord(words[i])], <<" ">>)

ContainsAny(s, pats) == \E i \in 1..Len(pats) : Contains(s, pats[i])

NameDatabase == << <<"p", "o", "s", "t", "g", "r", "e", "s">>,
       <<"m", "y", "s", "q", "l">>,
       <<"m", "o", "n", "g", "o">>,
       <<"d", "b">>,
       <<"d", "a", "t", "a", "b", "a", "s", "e">> >>
NameCache == << <<"r", "e", "d", "i", "s">>,
       <<"m", "e", "m", "c", "a", "c", "h", "e">>,
       <<"c", "a", "c", "h", "e">> >>
NameProxy == << <<"n", "g", "i", "n", "x">>,
       <<"p", "r", "o", "x", "y">>,
       <<"g", "a", "t", "e", "w", "a", "y">>,
       <<"l", "b">>,
       <<"l", "o", "a", "d", "b", "a", "l", "a", "n", "c", "e", "r">> >>
NameFrontend == << <<"f", "r", "o", "n", "t", "e", "n", "d">>,
       <<"w", "e", "b">>,
       <<"u", "i">>,
       <<"c", "l", "i", "e", "n", "t">>,
       <<"a", "p", "p">> >>
NameBackend == << <<"a", "p", "i">>,
       <<"b", "a", "c", "k", "e", "n", "d">>,
       <<"s", "e", "r", "v", "e", "r">>,
       <<"s", "e", "r", "v", "i", "c", "e">> >>
NameInfrastructure == << <<"w", "o", "r", "k", "e", "r">>,
       <<"q", "u", "e", "u", "e">>,
       <<"s", "c", "h", "e", "d", "u", "l", "e", "r">>,
       <<"c", "r", "o", "n">> >>

\* (mutant: the backend keywords are tried before the frontend ones)
infer_category_from_name_backend_first(name) ==
    LET lower == ToLowercase(name) IN
    IF ContainsAny(lower, NameDatabase) THEN "Database"
    ELSE IF ContainsAny(lower, NameCache) THEN "Cache"
    ELSE IF ContainsAny(lower, NameProxy) THEN "Proxy"
    ELSE IF ContainsAny(lower, NameBackend) THEN "Backend"
    ELSE IF ContainsAny(lower, NameFrontend) THEN "Frontend"
    ELSE IF ContainsAny(lower, NameInfrastructure) THEN "Infrastructure"
    ELSE "Unknown"

infer_category_from_name(name) ==
    LET lower == ToLowercase(name) IN
    IF ContainsAny(lower, NameDatabase) THEN "Database"
    ELSE IF ContainsAny(lower, NameCache) THEN "Cache"
    ELSE IF ContainsAny(lower, NameProxy) THEN "Proxy"
    ELSE IF ContainsAny(lower, NameFrontend) THEN "Frontend"
    ELSE IF ContainsAny(lower, NameBackend) THEN "Backend"
    ELSE IF ContainsAny(lower, NameInfrastructure) THEN "Infrastructure"
    ELSE "Unknown"

CommandDatabase == << <<"p", "o", "s", "t", "g", "r", "e", "s">>,
       <<"m", "y", "s", "q", "l">>,
       <<"m", "o", "n", "g", "o">>,
       <<"r", "e", "d", "i", "s">> >>
CommandFrontend == << <<"v", "i", "t", "e">>,
       <<"w", "e", "b", "p", "a", "c", "k">>,
       <<"p", "a", "r", "c", "e", "l">>,
       <<"n", "e", "x", "t">>,
       <<"r", "e", "m", "i", "x">> >>
CommandBackend == << <<"n", "o", "d", "e">>,
       <<"p", "y", "t", "h", "o", "n">>,
       <<"r", "u", "b", "y">>,
       <<"g", "o">>,
       <<"j", "a", "v", "a">>,
       <<"p", "h", "p">>,
       <<"b", "u", "n">>,
       <<"d", "e", "n", "o">> >>
CommandProxy == << <<"n", "g", "i", "n", "x">>,
       <<"c", "a", "d", "d", "y">>,
       <<"h", "t", "t", "p", "d">> >>
CommandInfrastructure == << <<"d", "o", "c", "k", "e", "r">>,
       <<"o", "r", "b", "s", "t", "a", "c", "k">> >>

infer_category_from_command(command) ==
    LET lower == ToLowercase(command) IN
    IF ContainsAny(lower, CommandDatabase) THEN "Database"
    ELSE IF ContainsAny(lower, CommandFrontend) THEN "Frontend"
    ELSE IF ContainsAny(lower, CommandBackend) THEN "Backend"
    ELSE IF ContainsAny(lower, CommandProxy) THEN "Proxy"
    ELSE IF ContainsAny(lower, CommandInfrastructure) THEN "Infrastructure"
    ELSE "Unknown"

\* str::strip_prefix(prefix).unwrap_or(s)
StripPrefixOr(s, prefix) ==
    IF StartsWith(s, prefix) THEN SubSeq(s, Len(prefix) + 1, Len(s)) ELSE s

S_service == <<" ", "s", "e", "r", "v", "i", "c", "e">>
S_Docker_container == <<"D", "o", "c", "k", "e", "r", " ", "c", "o", "n", "t", "a", "i", "n", "e", "r", ":", " ">>
S_running_in_project == <<" ", "r", "u", "n", "n", "i", "n", "g", " ", "i", "n", " ", "p", "r", "o", "j", "e", "c", "t", " ">>
S_process == <<" ", "p", "r", "o", "c", "e", "s", "s">>

\* (mutant: the project name is tried before the container name)
analyze_context_project_first(context) ==
    IF IsSome(context.project_name)
    THEN [display_name |-> capitalize_words(Unwrap(context.project_name))
                               \o <<" ", "(">> \o context.command \o <<")">>,
          category |-> infer_category_from_command(context.command),
          description |-> context.command \o S_running_in_project
                              \o Unwrap(context.project_name)]
    ELSE IF IsSome(context.container_name)
    THEN [display_name |-> capitalize_words(Unwrap(context.container_name)),
          category |-> infer_category_from_name(Unwrap(context.container_name)),
          description |-> S_Docker_container \o Unwrap(context.container_name)]
    ELSE [display_name |-> capitalize_words(context.command),
          category |-> infer_category_from_command(context.command),
          description |-> context.command \o S_process]

analyze_context(context) ==
    IF IsSome(context.container_prefix) /\ IsSome(context.container_name)
    THEN LET prefix == Unwrap(context.container_prefix)
             container == Unwrap(context.container_name)
             prefix_upper == capitalize_words(prefix)
             service == StripPrefixOr(container, prefix \o <<"_">>)
             service_upper == capitalize_words(service)
         IN [display_name |-> prefix_upper \o <<" ">> \o service_upper,
             category |-> infer_category_from_name(service),
             description |-> prefix_upper \o <<" ">> \o service \o S_service]
    ELSE IF IsSome(context.container_name)
    THEN LET container == Unwrap(context.container_name)
         IN [display_name |-> capitalize_words(container),
             category |-> infer_category_from_name(container),
             description |-> S_Docker_container \o container]
    ELSE IF IsSome(context.project_name)
    THEN LET project == Unwrap(context.project_name)
             command == context.command
         IN [display_name |-> capitalize_words(project) \o <<" ", "(">> \o command \o <<")">>,
             category |-> infer_category_from_command(command),
             description |-> command \o S_running_in_project \o project]
    ELSE [display_name |-> capitalize_words(context.command),
          category |-> infer_category_from_command(context.command),
          description |-> context.command \o S_process]

\* (mutant: the group hint is left out)
generate_fallback_nohint(context) ==
    LET a == analyze_context(context)
    IN [display_name |-> a.display_name, description |-> a.description,
        category |-> a.category, group_hint |-> None, confidence |-> 5]

generate_fallback(context) ==
    LET a == analyze_context(context)
    IN [display_name |-> a.display_name,
        description |-> a.description,
        category |-> a.category,
        group_hint |-> context.container_prefix,
        confidence |-> 5]

(***************************************************************************)
(* types.rs: AnalysisContext::to_prompt.  One line per populated field, as *)
(* a (label, value) pair; a full command of more than 200 bytes is cut at  *)
(* byte 200.  The result is the lines, or a panic of the slice.            *)
(***************************************************************************)
PROMPT_TRUNCATE == 200

S_ellipsis == <<".", ".", ".">>

TruncateFullCommand(full_cmd) ==
    IF ByteLen(full_cmd) > PROMPT_TRUNCATE
    THEN LET cut == SliceBytes(full_cmd, 0, PROMPT_TRUNCATE)
         IN [panic |-> cut.panic, s |-> cut.s \o S_ellipsis]
    ELSE [panic |-> FALSE, s |-> full_cmd]

OptionalLine(label, field) ==
    IF IsSome(field) THEN <<[label |-> label, value |-> Unwrap(field)]>> ELSE <<>>

to_prompt(context) ==
    LET truncated == IF IsSome(context.full_command)
                     THEN TruncateFullCommand(Unwrap(context.full_command))
                     ELSE [panic |-> FALSE, s |-> <<>>]
    IN [panic |-> truncated.panic,
        lines |-> <<[label |-> "Command", value |-> context.command]>>
                  \o OptionalLine("Port", context.port)
                  \o (IF IsSome(context.full_command)
                      THEN <<[label |-> "Full command", value |-> truncated.s]>>
                      ELSE <<>>)
                  \o OptionalLine("Project", context.project_name)
                  \o OptionalLine("Docker container", context.container_name)
                  \o OptionalLine("Container prefix", context.container_prefix)]

build_analysis_prompt(context) == to_prompt(context)

(***************************************************************************)
(* ica.rs: find_matching_brace and extract_json.                           *)
(***************************************************************************)
\* The state of the scan of s.chars().enumerate(); found holds the enumerate
\* index once the function has returned.
BraceStart == [depth |-> 0, in_string |-> FALSE, escape_next |-> FALSE, found |-> None]

\* One turn of the loop, on character ch at enumerate index i (from 0).
BraceStep(st, ch, i) ==
    IF IsSome(st.found) THEN st
    ELSE IF st.escape_next THEN [st EXCEPT !.escape_next = FALSE]
    ELSE IF ch = "\\" /\ st.in_string THEN [st EXCEPT !.escape_next = TRUE]
    ELSE IF ch = "\"" THEN [st EXCEPT !.in_string = ~st.in_string]
    ELSE IF ch = "{" /\ ~st.in_string THEN [st EXCEPT !.depth = st.depth + 1]
    ELSE IF ch = "}" /\ ~st.in_string
    THEN IF st.depth - 1 = 0 THEN [st EXCEPT !.depth = 0, !.found = Some(i)]
         ELSE [st EXCEPT !.depth = st.depth - 1]
    ELSE st

\* The loop over the characters lo..hi (from 1) of s, from state st.
RECURSIVE BraceScan(_, _, _, _)
BraceScan(s, lo, hi, st) ==
    IF lo > hi THEN st
    ELSE IF lo = hi THEN BraceStep(st, s[lo], lo - 1)
    ELSE LET mid == (lo + hi) \div 2
             left == BraceScan(s, lo, mid, st)
         IN IF IsSome(left.found) THEN left ELSE BraceScan(s, mid + 1, hi, left)

find_matching_brace(s) == BraceScan(s, 1, Len(s), BraceStart).found

S_fence_json == <<"BT", "BT", "BT", "j", "s", "o", "n">>
S_fence_newline == <<"BT", "BT", "BT", "\n">>
S_fence == <<"BT", "BT", "BT">>
FENCE_JSON_LEN == 7

ExtractOk(r) == [kind |-> IF r.panic THEN "panic" ELSE "ok", s |-> r.s]
ExtractErr == [kind |-> "err", s |-> <<>>]

\* &trimmed[start..] for a byte offset start that str::find returned.
SuffixFrom(trimmed, start) == SliceBytes(trimmed, start, ByteLen(trimmed)).s

\* (mutant: without a fence the whole text is returned)
ExtractAnyBrace_whole(trimmed) == ExtractOk([panic |-> FALSE, s |-> trimmed])

\* ica.rs:158-162, the scan for the first brace anywhere.
ExtractAnyBrace(trimmed) ==
    LET start == Find(trimmed, <<"{">>) IN
    IF IsSome(start)
    THEN LET end == find_matching_brace(SuffixFrom(trimmed, Unwrap(start))) IN
         IF IsSome(end)
         THEN ExtractOk(SliceBytes(trimmed, Unwrap(start),
                                   Unwrap(start) + Unwrap(end) + 1))
         ELSE ExtractErr
    ELSE ExtractErr

\* ica.rs:147-155, the json-tagged fence.
ExtractFenced(trimmed) ==
    LET start == Find(trimmed, S_fence_json) IN
    IF IsSome(start)
    THEN LET rest == SuffixFrom(trimmed, Unwrap(start))
             end == IF IsSome(Find(rest, S_fence_newline))
                    THEN Find(rest, S_fence_newline) ELSE RFind(rest, S_fence)
             json_start == Unwrap(start) + FENCE_JSON_LEN
             json_end == Unwrap(start) + Unwrap(end)
         IN IF IsSome(end) /\ json_end > json_start
            THEN LET cut == SliceBytes(trimmed, json_start, json_end)
                 IN ExtractOk([panic |-> cut.panic, s |-> Trim(cut.s)])
            ELSE ExtractAnyBrace(trimmed)
    ELSE ExtractAnyBrace(trimmed)

\* ica.rs:140-144, a text that starts with a brace.
extract_json(text) ==
    LET trimmed == Trim(text) IN
    IF StartsWith(trimmed, <<"{">>) /\ IsSome(find_matching_brace(trimmed))
    THEN ExtractOk(SliceBytes(trimmed, 0, Unwrap(find_matching_brace(trimmed)) + 1))
    ELSE ExtractFenced(trimmed)

(***************************************************************************)
(* JSON texts.  A document is a sequence of members [key, val]; a value is *)
(* a string, a number (in tenths) or null.  RenderJson writes a document   *)
(* as the text of a JSON object; serde_json::from_str accepts exactly the  *)
(* texts that are the rendering of a document, and none of the model's     *)
(* other texts is valid JSON.                                              *)
(***************************************************************************)
JStr(chars) == [t |-> "string", s |-> chars, tenths |-> 0]
JNum(tenths) == [t |-> "number", s |-> <<>>, tenths |-> tenths]
JNull == [t |-> "null", s |-> <<>>, tenths |-> 0]

Digits == <<"0", "1", "2", "3", "4", "5", "6", "7", "8", "9">>

RenderValue(v) ==
    IF v.t = "string" THEN <<"\"">> \o v.s \o <<"\"">>
    ELSE IF v.t = "number"
    THEN <<Digits[(v.tenths \div 10) + 1], ".", Digits[(v.tenths % 10) + 1]>>
    ELSE <<"n", "u", "l", "l">>

RECURSIVE RenderMembers(_)
RenderMembers(doc) ==
    IF doc = <<>> THEN <<>>
    ELSE <<"\"">> \o doc[1].key \o <<"\"", ":", " ">> \o RenderValue(doc[1].val)
         \o (IF Len(doc) > 1 THEN <<",", " ">> ELSE <<>>) \o RenderMembers(Tail(doc))

RenderJson(doc) == <<"{">> \o RenderMembers(doc) \o <<"}">>

K_display_name == <<"d", "i", "s", "p", "l", "a", "y", "_", "n", "a", "m", "e">>
K_description == <<"d", "e", "s", "c", "r", "i", "p", "t", "i", "o", "n">>
K_category == <<"c", "a", "t", "e", "g", "o", "r", "y">>
K_group_hint == <<"g", "r", "o", "u", "p", "_", "h", "i", "n", "t">>
K_confidence == <<"c", "o", "n", "f", "i", "d", "e", "n", "c", "e">>

\* types.rs:56-67: ProcessCategory with serde rename_all = "lowercase".
CategoryNames ==
    << [tag |-> <<"f", "r", "o", "n", "t", "e", "n", "d">>, category |-> "Frontend"],
       [tag |-> <<"b", "a", "c", "k", "e", "n", "d">>, category |-> "Backend"],
       [tag |-> <<"d", "a", "t", "a", "b", "a", "s", "e">>, category |-> "Database"],
       [tag |-> <<"c", "a", "c", "h", "e">>, category |-> "Cache"],
       [tag |-> <<"p", "r", "o", "x", "y">>, category |-> "Proxy"],
       [tag |-> <<"d", "e", "v", "t", "o", "o", "l">>, category |-> "DevTool"],
       [tag |-> <<"i", "n", "f", "r", "a", "s", "t", "r", "u", "c", "t", "u", "r", "e">>, category |-> "Infrastructure"],
       [tag |-> <<"u", "n", "k", "n", "o", "w", "n">>, category |-> "Unknown"] >>

Members(doc, key) == {i \in 1..Len(doc) : doc[i].key = key}
Member(doc, key) == doc[CHOOSE i \in Members(doc, key) : TRUE].val
HasType(doc, key, t) == Members(doc, key) # {} /\ Member(doc, key).t = t

\* (mutant: best effort, a field that is missing or of the wrong type gets a
\* default value)
DeserializeResponse_partial(doc) ==
    LET text(key) == IF HasType(doc, key, "string") THEN Member(doc, key).s ELSE <<>>
        known == {i \in 1..Len(CategoryNames) : CategoryNames[i].tag = text(K_category)}
    IN [ok |-> TRUE,
        response |->
            [display_name |-> text(K_display_name),
             description |-> text(K_description),
             category |-> IF known = {} THEN "Unknown"
                          ELSE CategoryNames[CHOOSE i \in known : TRUE].category,
             group_hint |-> IF HasType(doc, K_group_hint, "string")
                            THEN Some(Member(doc, K_group_hint).s) ELSE None,
             confidence |-> IF HasType(doc, K_confidence, "number")
                            THEN Member(doc, K_confidence).tenths ELSE 0]]

\* types.rs:255-262: the derived Deserialize of IcaAnalysisResponse.
DeserializeResponse(doc) ==
    IF /\ \A i \in 1..Len(doc) : Cardinality(Members(doc, doc[i].key)) = 1
       /\ HasType(doc, K_display_name, "string")
       /\ HasType(doc, K_description, "string")
       /\ HasType(doc, K_category, "string")
       /\ \E i \in 1..Len(CategoryNames) : CategoryNames[i].tag = Member(doc, K_category).s
       /\ Members(doc, K_group_hint) # {} => Member(doc, K_group_hint).t \in {"string", "null"}
       /\ HasType(doc, K_confidence, "number")
    THEN [ok |-> TRUE,
          response |->
              [display_name |-> Member(doc, K_display_name).s,
               description |-> Member(doc, K_description).s,
               category |-> CategoryNames[CHOOSE i \in 1..Len(CategoryNames) :
                                CategoryNames[i].tag = Member(doc, K_category).s].category,
               group_hint |-> IF HasType(doc, K_group_hint, "string")
                              THEN Some(Member(doc, K_group_hint).s) ELSE None,
               confidence |-> Member(doc, K_confidence).tenths]]
    ELSE [ok |-> FALSE, response |-> None]

(***************************************************************************)
(* The JSON documents the remote service answers with.                     *)
(***************************************************************************)
S_Test_name == <<"T", "e", "s", "t">>
S_A_test == <<"A", " ", "t", "e", "s", "t">>
S_backend == <<"b", "a", "c", "k", "e", "n", "d">>
S_Here_is == <<"H", "e", "r", "e", "'", "s", " ", "t", "h", "e", " ", "a", "n", "a", "l", "y", "s", "i", "s", ":", "\n">>
S_Hope == <<"\n", "H", "o", "p", "e", " ", "t", "h", "i", "s", " ", "h", "e", "l", "p", "s", "!">>

\* ica.rs:201, the response of test_extract_json_direct.
DOC_good ==
    << [key |-> K_display_name, val |-> JStr(S_Test_name)],
       [key |-> K_description, val |-> JStr(S_A_test)],
       [key |-> K_category, val |-> JStr(S_backend)],
       [key |-> K_group_hint, val |-> JNull],
       [key |-> K_confidence, val |-> JNum(9)] >>

\* The same without its confidence.
DOC_missing == SubSeq(DOC_good, 1, 4)

\* A group hint of three three-byte characters as the last member.
DOC_unicode ==
    << [key |-> K_display_name, val |-> JStr(S_Test_name)],
       [key |-> K_description, val |-> JStr(S_A_test)],
       [key |-> K_category, val |-> JStr(S_backend)],
       [key |-> K_confidence, val |-> JNum(9)],
       [key |-> K_group_hint, val |-> JStr(<<"C3", "C3", "C3">>)] >>

\* ica.rs:113, the tags the prompt tells the service to choose from.
PromptCategoryTags ==
    { <<"f", "r", "o", "n", "t", "e", "n", "d">>,
      <<"b", "a", "c", "k", "e", "n", "d">>,
      <<"d", "a", "t", "a", "b", "a", "s", "e">>,
      <<"c", "a", "c", "h", "e">>,
      <<"p", "r", "o", "x", "y">>,
      <<"d", "e", "v", "_", "t", "o", "o", "l">>,
      <<"i", "n", "f", "r", "a", "s", "t", "r", "u", "c", "t", "u", "r", "e">>,
      <<"u", "n", "k", "n", "o", "w", "n">> }

ResponseKeys == {K_display_name, K_description, K_category, K_group_hint, K_confidence}
RequiredKeys == ResponseKeys \ {K_group_hint}

\* DOC_good with the value of one member replaced.
DocWith(key, val) ==
    [i \in 1..Len(DOC_good) |->
        IF DOC_good[i].key = key THEN [key |-> key, val |-> val] ELSE DOC_good[i]]

\* DOC_good without one member.
DocWithout(key) == SelectSeq(DOC_good, LAMBDA m : m.key # key)

\* A value of a type the field of IcaAnalysisResponse does not take
\* (types.rs:256-261): a number for a String, an Option<String> or the
\* category, a string for the f32.
WrongTyped(key) ==
    IF key = K_confidence THEN JStr(<<"0", ".", "9">>)
    ELSE IF key = K_description THEN JNull
    ELSE JNum(9)

CategoryDocs == {DocWith(K_category, JStr(tag)) : tag \in PromptCategoryTags}
MissingDocs == {DocWithout(key) : key \in RequiredKeys}
WrongTypeDocs == {DocWith(key, WrongTyped(key)) : key \in ResponseKeys}

\* A confidence of 1.5.
DOC_overconfident == DocWith(K_confidence, JNum(15))

JsonDocs ==
    {DOC_good, DOC_missing, DOC_unicode, DOC_overconfident, DocWithout(K_group_hint)}
        \cup CategoryDocs \cup MissingDocs \cup WrongTypeDocs

(***************************************************************************)
(* ica.rs: the credential, and analyze.                                    *)
(***************************************************************************)
\* get_service_key: SERVICE_KEY.get_or_init runs the setec fetch only while
\* the cell is unset; fetched is what that fetch yields ("key" or "nokey").
\* (mutant: a failed fetch is not kept, the next call fetches again)
get_service_key_retrying(cell, fetched) == IF cell = "key" THEN cell ELSE fetched

get_service_key(cell, fetched) == IF cell = "unset" THEN fetched ELSE cell

is_available(cell) == cell = "key"

\* (mutant: a caller that finds the cell unset runs the initializer)
OnceVacant_racy(cell, initializing) == cell = "unset"

\* OnceLock::get_or_init, ica.rs:14-15: the caller runs the initializer when
\* the cell is unset and no other thread is running it.
OnceVacant(cell, initializing) == cell = "unset" /\ ~initializing

\* What the HTTP call of analyze yields: a transport error or timeout, or the
\* response text of the envelope.
RemoteError == [kind |-> "error", name |-> "transport", text |-> <<>>]
RemoteText(name, text) == [kind |-> "text", name |-> name, text |-> text]

NotAnalyzed == [kind |-> "none", response |-> None]
Panicked == [kind |-> "panic", response |-> None]
Failed == [kind |-> "err", response |-> None]

parse_claude_response(response) ==
    LET json_str == extract_json(response) IN
    IF json_str.kind = "panic" THEN Panicked
    ELSE IF json_str.kind = "err" THEN Failed
    ELSE IF \E d \in JsonDocs : RenderJson(d) = json_str.s
    THEN LET parsed == DeserializeResponse(
                           CHOOSE d \in JsonDocs : RenderJson(d) = json_str.s)
         IN IF parsed.ok THEN [kind |-> "ok", response |-> Some(parsed.response)]
            ELSE Failed
    ELSE Failed

\* analyze from the return of the HTTP call on (ica.rs:86-99).
analyze_response(remote) ==
    IF remote.kind = "error" THEN Failed
    ELSE parse_claude_response(remote.text)

(***************************************************************************)
(* worker.rs: spawn_learning_worker.                                       *)
(***************************************************************************)
\* Instant and Duration keep seconds in 64 bits, signed and unsigned; the
\* model scales the width down to InstantBits.
U64_MAX == 2 ^ InstantBits - 1
I64_MIN == 0 - 2 ^ (InstantBits - 1)

\* Instant - Duration panics when the result is not representable.
I64_MAX == 2 ^ (InstantBits - 1) - 1
InstantSubOverflows(instant, duration) ==
    duration > I64_MAX \/ instant - duration < I64_MIN

\* Instant::elapsed: the time since the instant, never negative.
Elapsed(instant, t) == IF t >= instant THEN t - instant ELSE 0

\* (mutant: the worker never waits)
NeedsSleep_never(elapsed, rate_limit) == FALSE

NeedsSleep(elapsed, rate_limit) == elapsed < rate_limit

SleepFor(elapsed, rate_limit) == rate_limit - elapsed

\* (mutant: the next request is taken while a call is still out)
AtReceive_concurrent(pc) == pc \in {"recv", "call"}

\* The worker is at the head of its loop, `for request in rx`.
AtReceive(pc) == pc = "recv"

(***************************************************************************)
(* builtin.rs: populate_builtins.  The catalog of the model holds two of   *)
(* the source's rows (lines 39-45 and 256-262); every row is built by      *)
(* builtin_entry in the same way.                                          *)
(***************************************************************************)
S_brew == <<"b", "r", "e", "w">>
S_PostgreSQL_Database == <<"P", "o", "s", "t", "g", "r", "e", "S", "Q", "L", " ", "D", "a", "t", "a", "b", "a", "s", "e">>
S_PostgreSQL_description == <<"P", "o", "s", "t", "g", "r", "e", "S", "Q", "L", " ", "r", "e", "l", "a", "t", "i", "o", "n", "a", "l", " ", "d", "a", "t", "a", "b", "a", "s", "e", " ", "s", "e", "r", "v", "e", "r">>
S_Homebrew == <<"H", "o", "m", "e", "b", "r", "e", "w">>
S_Homebrew_description == <<"m", "a", "c", "O", "S", " ", "p", "a", "c", "k", "a", "g", "e", " ", "m", "a", "n", "a", "g", "e", "r">>

\* An f32 confidence is held in tenths: 10 is 1.0, 5 is 0.5.
builtin_entry(command, display_name, description, category, timestamp) ==
    [fingerprint |-> FingerprintNew(command),
     display_name |-> display_name,
     description |-> description,
     category |-> category,
     group_id |-> None,
     confidence |-> 10,
     source |-> "Builtin",
     sightings |-> 0,
     updated_at |-> timestamp]

BuiltinCatalog(t) ==
    << builtin_entry(S_postgres, S_PostgreSQL_Database, S_PostgreSQL_description,
                     "Database", t),
       builtin_entry(S_brew, S_Homebrew, S_Homebrew_description, "DevTool", t) >>

RECURSIVE InsertAll(_, _, _)
InsertAll(entries, builtins, i) ==
    IF i > Len(builtins) THEN entries
    ELSE InsertAll(MapInsert(entries, hash_key(builtins[i].fingerprint), builtins[i]),
                   builtins, i + 1)

\* (mutant: an entry found under the key is counted instead of replaced)
populate_builtins_counting(base, t) ==
    [base EXCEPT !.entries =
        [h \in DOMAIN InsertAll(@, BuiltinCatalog(t), 1) |->
            IF h \in DOMAIN @ /\ h \in {hash_key(BuiltinCatalog(t)[i].fingerprint) :
                                          i \in 1..Len(BuiltinCatalog(t))}
            THEN [InsertAll(@, BuiltinCatalog(t), 1)[h] EXCEPT
                      !.sightings = base.entries[h].sightings + 1]
            ELSE InsertAll(@, BuiltinCatalog(t), 1)[h]]]

populate_builtins(base, t) ==
    [base EXCEPT !.entries = InsertAll(@, BuiltinCatalog(t), 1)]

\* storage.rs, load_knowledge_base with no file: a fresh base at the current
\* version, seeded with the builtins.
CURRENT_VERSION == 1

\* (mutant: the fresh knowledge base is not seeded)
FreshKnowledgeBase_unseeded(t) == [KnowledgeBaseDefault EXCEPT !.version = CURRENT_VERSION]

FreshKnowledgeBase(t) ==
    populate_builtins([KnowledgeBaseDefault EXCEPT !.version = CURRENT_VERSION], t)

(***************************************************************************)
(* Inputs of the store operations.                                         *)
(***************************************************************************)
FP_node_3000 == with_port(FingerprintNew(S_node), 3000)
FP_postgres == FingerprintNew(S_postgres)

Fingerprints == {FP_node_3000, FP_postgres}

CTX_node == [AnalysisContextNew(S_node) EXCEPT !.port = Some(3000)]
CTX_dss == [AnalysisContextNew(S_node) EXCEPT
                !.container_name = Some(S_dss_app), !.container_prefix = Some(S_dss)]

StoreContexts == {CTX_node, CTX_dss}

S_Node_js == <<"N", "o", "d", "e", ".", "j", "s">>
S_Test == <<"T", "e", "s", "t">>
S_Dss_App == <<"D", "s", "s", " ", "A", "p", "p">>
S_Dss_service == <<"D", "s", "s", " ", "a", "p", "p", " ", "s", "e", "r", "v", "i", "c", "e">>

\* The (response, source) pairs handed to store_result: what the worker emits.
StoreResults ==
    { [response |-> [display_name |-> S_Node_js, description |-> S_Test,
                     category |-> "Backend", group_hint |-> None, confidence |-> 9],
       source |-> "ApiLearned"],
      [response |-> [display_name |-> S_Dss_App, description |-> S_Dss_service,
                     category |-> "Frontend", group_hint |-> Some(S_dss),
                     confidence |-> 5],
       source |-> "Heuristic"] }

\* min_sightings below, at and above the default of 2; max_pending below the
\* number of fingerprints (the pending map fills up) and at it.
LearningConfigDefault == [min_sightings |-> 2, rate_limit_secs |-> 5, max_pending |-> 20]

Configs ==
    {[LearningConfigDefault EXCEPT !.min_sightings = n, !.max_pending = p] :
         n \in {1, 2, 3}, p \in {1, Cardinality(Fingerprints)}}

\* lastOp.pre: what the operation found under its fingerprint's hash key, the
\* sightings of the PendingEntry (0: none) and whether a KnowledgeEntry was there.
\* lastOp.ages: where the last_seen of the entries a cleanup found lay, relative
\* to its cutoff.
NoOp == [op |-> "none", fingerprint |-> FP_postgres, context |-> CTX_node,
         response |-> None, source |-> "none", max_age |-> 0, ret |-> None,
         pre |-> [pending |-> 0, known |-> FALSE], ages |-> {}]

AgesOf(base, cutoff) ==
    { IF base.pending_analysis[h].last_seen < cutoff THEN "older"
      ELSE IF base.pending_analysis[h].last_seen = cutoff THEN "at" ELSE "newer" :
      h \in DOMAIN base.pending_analysis }

PreOf(base, f) ==
    [pending |-> CarriedSightings(base.pending_analysis, hash_key(f))
                     * (IF hash_key(f) \in DOMAIN base.pending_analysis THEN 1 ELSE 0),
     known |-> hash_key(f) \in DOMAIN base.entries]

(***************************************************************************)
(* storage.rs: the knowledge file.  The text of the file is a sequence of  *)
(* tokens: the opening brace, one member per field of KnowledgeBase in the *)
(* order of the struct, the closing brace.  fs::write creates or truncates *)
(* the file and then writes the text piece by piece.                       *)
(***************************************************************************)
TokOpen == [tok |-> "{"]
TokClose == [tok |-> "}"]
TokVersion(v) == [tok |-> "version", version |-> v]
TokEntries(e) == [tok |-> "entries", entries |-> e]
TokPending(q) == [tok |-> "pending_analysis", pending_analysis |-> q]

\* serde_json::to_string_pretty(kb)
Serialize(base) ==
    <<TokOpen, TokVersion(base.version), TokEntries(base.entries),
      TokPending(base.pending_analysis), TokClose>>

\* The positions of the members named key between the braces of text.
MembersNamed(text, key) == {i \in 2..(Len(text) - 1) : text[i].tok = key}

\* (mutant: what does not parse is read as an empty knowledge base)
Deserialize_lenient(text) == [ok |-> TRUE, kb |-> KnowledgeBaseDefault]

\* serde_json::from_str::<KnowledgeBase>: version and entries are required,
\* pending_analysis is #[serde(default)], a repeated member is an error.
Deserialize(text) ==
    LET n == Len(text)
        vs == MembersNamed(text, "version")
        es == MembersNamed(text, "entries")
        ps == MembersNamed(text, "pending_analysis")
    IN IF /\ n >= 2
          /\ text[1].tok = "{"
          /\ text[n].tok = "}"
          /\ Cardinality(vs) = 1
          /\ Cardinality(es) = 1
          /\ Cardinality(ps) <= 1
          /\ vs \cup es \cup ps = 2..(n - 1)
       THEN [ok |-> TRUE,
             kb |-> [version |-> text[CHOOSE i \in vs : TRUE].version,
                     entries |-> text[CHOOSE i \in es : TRUE].entries,
                     pending_analysis |->
                         IF ps = {} THEN EmptyMap
                         ELSE text[CHOOSE i \in ps : TRUE].pending_analysis]]
       ELSE [ok |-> FALSE, kb |-> KnowledgeBaseDefault]

migrate_knowledge_base(base) == [base EXCEPT !.version = CURRENT_VERSION]

\* The threads of the process that ask for the service key: the worker
\* (is_available and analyze) and whoever else holds an IcaClient.
Callers == {"worker", "ui", "scanner"}

CredentialIdle ==
    /\ callers = [c \in Callers |-> [pc |-> "idle", seen |-> "none"]]
    /\ running = FALSE
    /\ fetches = 0
    /\ observed = {}

NoCall == [fn |-> "none", arg |-> None, out |-> None]
PureIdle == call = NoCall

NoFile == [exists |-> FALSE, text |-> <<>>, mode |-> "none"]
FileOf(text) == [exists |-> TRUE, text |-> text, mode |-> "0600"]

\* fs::write opens with create and truncate: a new file gets the default
\* mode, an existing one keeps its mode and loses its content.
Truncated(f) == [exists |-> TRUE, text |-> <<>>,
                 mode |-> IF f.exists THEN f.mode ELSE "0644"]

NoSave == [active |-> FALSE, text |-> <<>>, prev |-> NoFile, then |-> "none", kb |-> None]
NotLoaded == [kind |-> "none", error |-> "none", found |-> "none"]

StorageIdle ==
    /\ file = NoFile
    /\ spc = "unstarted"
    /\ saving = NoSave
    /\ loaded = NotLoaded

(***************************************************************************)
(* Inputs of the worker: the requests the producers send and what the      *)
(* remote service answers.                                                 *)
(***************************************************************************)
\* 201 ASCII characters: more than 200 bytes, byte 200 a character boundary.
S_long_ascii == [i \in 1..(PROMPT_TRUNCATE + 1) |-> "a"]
\* 199 ASCII characters, a two-byte character, one more: byte 200 is inside
\* the two-byte character.
S_long_unicode ==
    [i \in 1..(PROMPT_TRUNCATE + 1) |-> IF i = PROMPT_TRUNCATE THEN "E2" ELSE "a"]

Request(fingerprint, context) == [fingerprint |-> fingerprint, context |-> context]

REQ_node == Request(FP_node_3000, CTX_node)
REQ_dss == Request(with_container_prefix(FingerprintNew(S_node), S_dss),
                   [CTX_dss EXCEPT !.full_command = Some(S_long_ascii)])
REQ_unicode == Request(FP_postgres,
                       [AnalysisContextNew(S_postgres) EXCEPT
                            !.full_command = Some(S_long_unicode)])

Requests == {REQ_node, REQ_dss, REQ_unicode}

RemoteOutcomes ==
    { RemoteError,
      RemoteText("json", RenderJson(DOC_good)),
      RemoteText("prose", S_Here_is \o RenderJson(DOC_good) \o S_Hope),
      RemoteText("no_json", S_Hope),
      RemoteText("missing_field", RenderJson(DOC_missing)),
      RemoteText("unicode", RenderJson(DOC_unicode)) }

\* What the service answers in the runs that follow a result into the store.
CategoryTexts == {RenderJson(d) : d \in CategoryDocs}
BrokenTexts == {RenderJson(d) : d \in MissingDocs \cup WrongTypeDocs}

LearnOutcomes ==
    {RemoteError, RemoteText("overconfident", RenderJson(DOC_overconfident)),
     RemoteText("no_group_hint", RenderJson(DocWithout(K_group_hint)))}
        \cup {RemoteText("category", t) : t \in CategoryTexts}
        \cup {RemoteText("broken", t) : t \in BrokenTexts}

\* What the pure functions of the worker's path yield on these inputs.  The
\* worker calls them on nothing else, so each is computed once per input.
Prompts ==
    {[context |-> r.context, prompt |-> build_analysis_prompt(r.context)] : r \in Requests}
Fallbacks ==
    {[context |-> r.context, response |-> generate_fallback(r.context)] : r \in Requests}
Analyses ==
    {[remote |-> r, analyzed |-> analyze_response(r)] : r \in RemoteOutcomes \cup LearnOutcomes}

PromptFor(context) == (CHOOSE p \in Prompts : p.context = context).prompt
FallbackFor(context) == (CHOOSE f \in Fallbacks : f.context = context).response
AnalysisOf(remote) == (CHOOSE a \in Analyses : a.remote = remote).analyzed

\* (mutant: a failed analysis is still reported as learned from the API)
Classified_mislabelled(available, analyzed, context) ==
    IF available
    THEN [response |-> IF analyzed.kind = "ok" THEN Unwrap(analyzed.response)
                       ELSE FallbackFor(context),
          source |-> "ApiLearned"]
    ELSE [response |-> FallbackFor(context), source |-> "Heuristic"]

\* worker.rs:64-89: the response and the source of a request's result.
Classified(available, analyzed, context) ==
    IF available /\ analyzed.kind = "ok"
    THEN [response |-> Unwrap(analyzed.response), source |-> "ApiLearned"]
    ELSE [response |-> FallbackFor(context), source |-> "Heuristic"]

RateLimits == {0, 2, U64_MAX}

Producers == {"ui", "scanner"}

WorkerIdle ==
    /\ wpc = "unspawned"
    /\ clock = 0
    /\ last_call = 0
    /\ wake = 0
    /\ queue = <<>>
    /\ senders = {}
    /\ result_rx = FALSE
    /\ results = <<>>
    /\ cur = None
    /\ credential = "unset"
    /\ inflight = 0
    /\ sent = 0
    /\ log = <<>>
    /\ last_end = -1
    /\ panic_at = "none"

(***************************************************************************)
(* The store: the operations of learning.rs applied, one at a time, by the *)
(* single owner of the knowledge base.                                     *)
(***************************************************************************)
storeVars == <<kb, now, lastOp, streak, reached>>
workerVars == <<wpc, clock, last_call, wake, queue, senders, result_rx, results, cur,
                credential, inflight, sent, log, last_end, panic_at>>
storageVars == <<file, spc, saving, loaded>>
credVars == <<callers, running, fetches, observed>>
pureVars == <<call>>
vars == <<storeVars, config, workerVars, credVars, pureVars, storageVars>>

InitStore ==
    /\ now = 0
    /\ kb \in {KnowledgeBaseDefault, FreshKnowledgeBase(0)}
    /\ config \in Configs
    /\ lastOp = NoOp
    /\ streak = [f \in Fingerprints |-> 0]
    /\ reached = {}
    /\ WorkerIdle
    /\ StorageIdle
    /\ CredentialIdle
    /\ PureIdle

\* The entry the next sighting of f touches has room below the model's cap.
SightingsBelowCap(f) ==
    LET h == hash_key(f) IN
    /\ h \in DOMAIN kb.entries => kb.entries[h].sightings < MaxSightings
    /\ h \in DOMAIN kb.pending_analysis =>
           kb.pending_analysis[h].sightings < MaxSightings

Unknown(base, f) ==
    /\ hash_key(f) \notin DOMAIN base.entries
    /\ hash_key(f) \notin DOMAIN base.pending_analysis

RecordSighting ==
    \E f \in Fingerprints, c \in StoreContexts :
        /\ SightingsBelowCap(f)
        /\ LET r == record_sighting(kb, f, c, config, now) IN
           /\ kb' = r.kb
           /\ lastOp' = [NoOp EXCEPT !.op = "record_sighting", !.fingerprint = f,
                                     !.context = c, !.ret = r.ret,
                                     !.pre = PreOf(kb, f)]
        /\ streak' = [streak EXCEPT ![f] =
                         IF @ > 0 THEN @ + 1
                         ELSE IF Unknown(kb, f)
                                 /\ PendingRoom(kb.pending_analysis, config.max_pending)
                              THEN 1 ELSE 0]
        /\ reached' = IF /\ hash_key(f) \in DOMAIN kb'.pending_analysis
                         /\ kb'.pending_analysis[hash_key(f)].sightings
                                >= config.min_sightings
                      THEN reached \cup {f} ELSE reached
        /\ UNCHANGED <<now, config, workerVars, credVars, pureVars, storageVars>>

StoreResult ==
    \E f \in Fingerprints, r \in StoreResults :
        /\ kb' = store_result(kb, f, r.response, r.source, now)
        /\ lastOp' = [NoOp EXCEPT !.op = "store_result", !.fingerprint = f,
                                  !.response = Some(r.response), !.source = r.source,
                                  !.pre = PreOf(kb, f)]
        /\ streak' = [streak EXCEPT ![f] = 0]
        /\ reached' = reached \ {f}
        /\ UNCHANGED <<now, config, workerVars, credVars, pureVars, storageVars>>

CleanupStalePending ==
    \E max_age \in 0..MaxNow :
        /\ kb' = cleanup_stale_pending(kb, max_age, now)
        /\ lastOp' = [NoOp EXCEPT !.op = "cleanup_stale_pending",
                                  !.max_age = max_age,
                                  !.ages = AgesOf(kb, now - max_age)]
        /\ streak' = [f \in Fingerprints |-> 0]
        /\ UNCHANGED reached
        /\ UNCHANGED <<now, config, workerVars, credVars, pureVars, storageVars>>

Tick ==
    /\ now < MaxNow
    /\ now' = now + 1
    /\ UNCHANGED <<kb, config, lastOp, streak, reached, workerVars, credVars, pureVars, storageVars>>

NextStore ==
    \/ RecordSighting
    \/ StoreResult
    \/ CleanupStalePending
    \/ Tick

SpecStore == InitStore /\ [][NextStore]_vars

(***************************************************************************)
(* The process that owns the knowledge base: load_knowledge_base at its    *)
(* start, save_knowledge_base afterwards, store_result in between; it can  *)
(* crash at any point and be started again.                                *)
(***************************************************************************)
\* A knowledge base with one learned entry and one pending entry.
KB_learned ==
    record_sighting(
        store_result(FreshKnowledgeBase(0), FP_postgres,
                     generate_fallback(AnalysisContextNew(S_postgres)), "Heuristic", 0),
        FP_node_3000, CTX_node, LearningConfigDefault, 0).kb

\* What the file can hold when the process starts: nothing; a knowledge base
\* written by an earlier run, seeded, empty, learned, or of schema version 0;
\* a text without the pending_analysis member; a text cut short; a text
\* without the entries member.
StartFiles ==
    {NoFile}
    \cup {FileOf(Serialize(b)) :
             b \in {FreshKnowledgeBase(0),
                    [KnowledgeBaseDefault EXCEPT !.version = CURRENT_VERSION],
                    KB_learned,
                    [KB_learned EXCEPT !.version = 0]}}
    \cup {FileOf(<<TokOpen, TokVersion(CURRENT_VERSION), TokEntries(EmptyMap), TokClose>>),
          FileOf(SubSeq(Serialize(KB_learned), 1, 3)),
          FileOf(<<TokOpen, TokVersion(CURRENT_VERSION), TokClose>>)}

InitStorage ==
    /\ kb = KnowledgeBaseDefault
    /\ now = 0
    /\ lastOp = NoOp
    /\ streak = [f \in Fingerprints |-> 0]
    /\ reached = {}
    /\ config = LearningConfigDefault
    /\ WorkerIdle
    /\ CredentialIdle
    /\ PureIdle
    /\ file \in StartFiles
    /\ spc = "start"
    /\ saving = NoSave
    /\ loaded = NotLoaded

\* save_knowledge_base, storage.rs:46-48: the text to write.
SaveOf(base, then) ==
    [active |-> TRUE, text |-> Serialize(base), prev |-> file, then |-> then,
     kb |-> Some(base)]

\* storage.rs:22-33: the file exists.
LoadExisting ==
    /\ spc = "start"
    /\ file.exists
    /\ \E io_ok \in BOOLEAN :
           LET parsed == Deserialize(file.text) IN
           IF ~io_ok \/ ~parsed.ok
           THEN /\ spc' = "failed"
                /\ loaded' = [kind |-> "err", error |-> IF io_ok THEN "parse" ELSE "read",
                              found |-> "file"]
                /\ UNCHANGED <<kb, saving>>
           ELSE IF parsed.kb.version < CURRENT_VERSION
           THEN /\ spc' = "save_open"
                /\ saving' = SaveOf(migrate_knowledge_base(parsed.kb), "load")
                /\ loaded' = [NotLoaded EXCEPT !.found = "file"]
                /\ kb' = kb
           ELSE /\ spc' = "ready"
                /\ kb' = parsed.kb
                /\ loaded' = [kind |-> "ok", error |-> "none", found |-> "file"]
                /\ saving' = saving
    /\ UNCHANGED <<now, lastOp, streak, reached, config, workerVars, credVars, pureVars, file>>

\* storage.rs:34-41: no file.
LoadAbsent ==
    /\ spc = "start"
    /\ ~file.exists
    /\ spc' = "save_open"
    /\ saving' = SaveOf(FreshKnowledgeBase(now), "load")
    /\ loaded' = [NotLoaded EXCEPT !.found = "absent"]
    /\ UNCHANGED <<storeVars, config, workerVars, credVars, pureVars, file>>

\* The owner saves its knowledge base.
Save ==
    /\ spc = "ready"
    /\ spc' = "save_open"
    /\ saving' = SaveOf(kb, "save")
    /\ UNCHANGED <<storeVars, config, workerVars, credVars, pureVars, file, loaded>>

\* save_knowledge_base returns; the load_knowledge_base that called it
\* returns its knowledge base, or the error.
SaveReturns(ok) ==
    /\ saving' = NoSave
    /\ IF saving.then = "load"
       THEN /\ spc' = IF ok THEN "ready" ELSE "failed"
            /\ kb' = IF ok THEN Unwrap(saving.kb) ELSE kb
            /\ loaded' = [loaded EXCEPT !.kind = IF ok THEN "ok" ELSE "err",
                                        !.error = IF ok THEN "none" ELSE "save"]
       ELSE /\ spc' = "ready"
            /\ UNCHANGED <<kb, loaded>>

\* storage.rs:49, fs::write: the file is created or truncated.
SaveOpen ==
    /\ spc = "save_open"
    /\ \E io_ok \in BOOLEAN :
           IF io_ok
           THEN /\ file' = Truncated(file)
                /\ spc' = "save_write"
                /\ UNCHANGED <<kb, saving, loaded>>
           ELSE /\ file' = file
                /\ SaveReturns(FALSE)
    /\ UNCHANGED <<now, lastOp, streak, reached, config, workerVars, credVars, pureVars>>

\* storage.rs:49, fs::write: the next piece of the text is written.
SaveWrite ==
    /\ spc = "save_write"
    /\ Len(file.text) < Len(saving.text)
    /\ \E io_ok \in BOOLEAN :
           IF io_ok
           THEN /\ file' = [file EXCEPT !.text = Append(@, saving.text[Len(@) + 1])]
                /\ UNCHANGED <<kb, spc, saving, loaded>>
           ELSE /\ file' = file
                /\ SaveReturns(FALSE)
    /\ UNCHANGED <<now, lastOp, streak, reached, config, workerVars, credVars, pureVars>>

\* storage.rs:51-53: the text is written; fs::set_permissions(0o600).
SavePermissions ==
    /\ spc = "save_write"
    /\ Len(file.text) = Len(saving.text)
    /\ \E io_ok \in BOOLEAN :
           /\ file' = IF io_ok THEN [file EXCEPT !.mode = "0600"] ELSE file
           /\ SaveReturns(io_ok)
    /\ UNCHANGED <<now, lastOp, streak, reached, config, workerVars, credVars, pureVars>>

\* A result is stored in the loaded knowledge base.
Learn ==
    /\ spc = "ready"
    /\ StoreResult

\* The process dies; the file stays as it is.
Crash ==
    /\ spc \notin {"crashed", "unstarted"}
    /\ spc' = "crashed"
    /\ UNCHANGED <<storeVars, config, workerVars, credVars, pureVars, file, saving, loaded>>

\* The process is started again.
Restart ==
    /\ spc \in {"crashed", "failed"}
    /\ spc' = "start"
    /\ kb' = KnowledgeBaseDefault
    /\ lastOp' = NoOp
    /\ saving' = NoSave
    /\ loaded' = NotLoaded
    /\ UNCHANGED <<now, streak, reached, config, workerVars, credVars, pureVars, file>>

NextStorage ==
    \/ LoadExisting
    \/ LoadAbsent
    \/ Save
    \/ SaveOpen
    \/ SaveWrite
    \/ SavePermissions
    \/ Learn
    \/ Crash
    \/ Restart

SpecStorage == InitStorage /\ [][NextStorage]_vars

(***************************************************************************)
(* ica.rs: get_service_key under concurrent callers.  SERVICE_KEY is a     *)
(* OnceLock: the first caller runs the setec fetch, callers that arrive    *)
(* while it runs block until the cell is set.                              *)
(***************************************************************************)
InitCredential ==
    /\ kb = KnowledgeBaseDefault
    /\ now = 0
    /\ lastOp = NoOp
    /\ streak = [f \in Fingerprints |-> 0]
    /\ reached = {}
    /\ config = LearningConfigDefault
    /\ WorkerIdle
    /\ StorageIdle
    /\ CredentialIdle
    /\ PureIdle

workerRest == <<wpc, clock, last_call, wake, queue, senders, result_rx, results, cur,
                inflight, sent, log, last_end, panic_at>>

Returned(c, value) ==
    /\ callers' = [callers EXCEPT ![c] = [pc |-> "returned", seen |-> value]]
    /\ observed' = observed \cup {value}

\* is_available() or analyze() calls get_service_key (ica.rs:68 and 73-74),
\* which enters SERVICE_KEY.get_or_init.
GetOrInit ==
    \E c \in Callers :
        /\ callers[c].pc = "idle"
        /\ IF OnceVacant(credential, running)
           THEN /\ callers' = [callers EXCEPT ![c].pc = "fetching"]
                /\ running' = TRUE
                /\ fetches' = fetches + 1
                /\ UNCHANGED observed
           ELSE IF credential = "unset"
           THEN /\ callers' = [callers EXCEPT ![c].pc = "blocked"]
                /\ UNCHANGED <<running, fetches, observed>>
           ELSE /\ Returned(c, credential)
                /\ UNCHANGED <<running, fetches>>
        /\ UNCHANGED <<storeVars, storageVars, pureVars, config, workerRest, credential>>

\* ica.rs:15-35: the setec command ends; the cell is set with what it gave.
FetchEnds ==
    \E c \in Callers, fetched \in {"key", "nokey"} :
        /\ callers[c].pc = "fetching"
        /\ credential' = get_service_key(credential, fetched)
        /\ running' = FALSE
        /\ Returned(c, credential')
        /\ UNCHANGED <<storeVars, storageVars, pureVars, config, workerRest, fetches>>

\* A caller blocked in get_or_init goes on once the cell is set.
Unblock ==
    \E c \in Callers :
        /\ callers[c].pc = "blocked"
        /\ credential # "unset"
        /\ Returned(c, credential)
        /\ UNCHANGED <<storeVars, storageVars, pureVars, config, workerRest, credential,
                       running, fetches>>

\* The call is over; the thread may call again.
CallReturns ==
    \E c \in Callers :
        /\ callers[c].pc = "returned"
        /\ callers' = [callers EXCEPT ![c].pc = "idle"]
        /\ UNCHANGED <<storeVars, storageVars, pureVars, config, workerRest, credential,
                       running, fetches, observed>>

NextCredential ==
    \/ GetOrInit
    \/ FetchEnds
    \/ Unblock
    \/ CallReturns

SpecCredential == InitCredential /\ [][NextCredential]_vars

(***************************************************************************)
(* The worker thread, its producers and the owner of the result channel.   *)
(***************************************************************************)
InitWorker ==
    /\ kb = KnowledgeBaseDefault
    /\ now = 0
    /\ lastOp = NoOp
    /\ streak = [f \in Fingerprints |-> 0]
    /\ reached = {}
    /\ config \in {[LearningConfigDefault EXCEPT !.rate_limit_secs = r] : r \in RateLimits}
    /\ wpc = "spawned"
    /\ clock = 0
    /\ last_call = 0
    /\ wake = 0
    /\ queue = <<>>
    /\ senders = Producers
    /\ result_rx = TRUE
    /\ results = <<>>
    /\ cur = None
    /\ credential = "unset"
    /\ inflight = 0
    /\ sent = 0
    /\ log = <<>>
    /\ last_end = -1
    /\ panic_at = "none"
    /\ StorageIdle
    /\ CredentialIdle
    /\ PureIdle

WorkerAlive == wpc \notin {"done", "panicked"}

\* worker.rs:40-47.  log::info! evaluates client.is_available() only when the
\* info level is enabled.
WorkerStart ==
    /\ wpc = "spawned"
    /\ IF InstantSubOverflows(clock, config.rate_limit_secs)
       THEN /\ wpc' = "panicked"
            /\ panic_at' = "startup"
            /\ UNCHANGED <<last_call, credential>>
       ELSE /\ wpc' = "recv"
            /\ last_call' = clock - config.rate_limit_secs
            /\ \E info_enabled \in BOOLEAN, fetched \in {"key", "nokey"} :
                   credential' = IF info_enabled
                                 THEN get_service_key(credential, fetched)
                                 ELSE credential
            /\ UNCHANGED panic_at
    /\ UNCHANGED <<storeVars, storageVars, credVars, pureVars, config, clock, wake, queue, senders, result_rx, results,
                   cur, inflight, sent, log, last_end>>

\* worker.rs:49-54: `for request in rx` yields the next request and the rate
\* limit is checked against last_call.
WorkerReceive ==
    /\ AtReceive(wpc)
    /\ queue # <<>>
    /\ cur' = Some(Head(queue))
    /\ queue' = Tail(queue)
    /\ LET elapsed == Elapsed(last_call, clock)
           entry == [request |-> Head(queue), slept |-> FALSE, available |-> FALSE,
                     analyzed |-> NotAnalyzed, delivered |-> FALSE]
       IN IF NeedsSleep(elapsed, config.rate_limit_secs)
          THEN /\ wpc' = "sleep"
               /\ wake' = clock + SleepFor(elapsed, config.rate_limit_secs)
               /\ log' = Append(log, [entry EXCEPT !.slept = TRUE])
          ELSE /\ wpc' = "stamp"
               /\ wake' = wake
               /\ log' = Append(log, entry)
    /\ UNCHANGED <<storeVars, storageVars, credVars, pureVars, config, clock, last_call, senders, result_rx,
                   results, credential, inflight, sent, last_end, panic_at>>

\* worker.rs:49 and 103: the channel is empty and every Sender is dropped.
WorkerShutdown ==
    /\ AtReceive(wpc)
    /\ queue = <<>>
    /\ senders = {}
    /\ wpc' = "done"
    /\ UNCHANGED <<storeVars, storageVars, credVars, pureVars, config, clock, last_call, wake, queue, senders, result_rx,
                   results, cur, credential, inflight, sent, log, last_end, panic_at>>

\* thread::sleep returns once the duration has passed.
WorkerWake ==
    /\ wpc = "sleep"
    /\ clock >= wake
    /\ wpc' = "stamp"
    /\ wake' = 0
    /\ UNCHANGED <<storeVars, storageVars, credVars, pureVars, config, clock, last_call, queue, senders, result_rx,
                   results, cur, credential, inflight, sent, log, last_end, panic_at>>

\* worker.rs:92-100: result_tx.send; a failed send is only logged.
Sent(channel, receiver_alive, result) ==
    IF receiver_alive THEN Append(channel, result) ELSE channel

AnalysisResult(request, classified) ==
    [fingerprint |-> request.fingerprint,
     response |-> classified.response,
     source |-> classified.source]

\* worker.rs:55-64: last_call = Instant::now(), then client.is_available().
\* With a key, analyze builds the prompt and sends it (ica.rs:73-92); without
\* one the result is the fallback (worker.rs:84-89), sent at once.
WorkerStamp ==
    /\ wpc = "stamp"
    /\ last_call' = clock
    /\ \E fetched \in {"key", "nokey"} :
           /\ credential' = get_service_key(credential, fetched)
           /\ IF ~is_available(credential')
              THEN /\ wpc' = "recv"
                   /\ results' = Sent(results, result_rx,
                                      AnalysisResult(Unwrap(cur),
                                          Classified(FALSE, NotAnalyzed,
                                                     Unwrap(cur).context)))
                   /\ log' = [log EXCEPT ![Len(log)].delivered = result_rx]
                   /\ last_end' = clock
                   /\ cur' = None
                   /\ UNCHANGED <<inflight, panic_at>>
              ELSE IF PromptFor(Unwrap(cur).context).panic
              THEN /\ wpc' = "panicked"
                   /\ panic_at' = "to_prompt"
                   /\ log' = [log EXCEPT ![Len(log)].available = TRUE,
                                         ![Len(log)].analyzed = Panicked]
                   /\ UNCHANGED <<results, cur, inflight, last_end>>
              ELSE /\ wpc' = "call"
                   /\ inflight' = inflight + 1
                   /\ log' = [log EXCEPT ![Len(log)].available = TRUE]
                   /\ UNCHANGED <<results, cur, panic_at, last_end>>
    /\ UNCHANGED <<storeVars, storageVars, credVars, pureVars, config, clock, wake, queue, senders, result_rx, sent>>

\* ica.rs:86-99 and worker.rs:65-100: the call returns, its outcome is parsed,
\* the result is chosen and sent.
WorkerResponse ==
    /\ wpc = "call"
    /\ \E remote \in RemoteOutcomes :
           LET analyzed == AnalysisOf(remote) IN
           /\ inflight' = inflight - 1
           /\ IF analyzed.kind = "panic"
              THEN /\ wpc' = "panicked"
                   /\ panic_at' = "extract_json"
                   /\ log' = [log EXCEPT ![Len(log)].analyzed = analyzed]
                   /\ UNCHANGED <<results, cur, last_end>>
              ELSE /\ wpc' = "recv"
                   /\ results' = Sent(results, result_rx,
                                      AnalysisResult(Unwrap(cur),
                                          Classified(TRUE, analyzed, Unwrap(cur).context)))
                   /\ log' = [log EXCEPT ![Len(log)].analyzed = analyzed,
                                         ![Len(log)].delivered = result_rx]
                   /\ last_end' = clock
                   /\ cur' = None
                   /\ UNCHANGED panic_at
    /\ UNCHANGED <<storeVars, storageVars, credVars, pureVars, config, clock, last_call, wake, queue, senders, result_rx,
                   credential, sent>>

\* A producer sends a request; the send fails once the worker has dropped rx.
Enqueue ==
    \E p \in senders, r \in Requests :
        /\ sent < MaxRequests
        /\ WorkerAlive
        /\ queue' = Append(queue, r)
        /\ sent' = sent + 1
        /\ UNCHANGED <<storeVars, storageVars, credVars, pureVars, config, wpc, clock, last_call, wake, senders, result_rx,
                       results, cur, credential, inflight, log, last_end, panic_at>>

DropSender ==
    \E p \in senders :
        /\ senders' = senders \ {p}
        /\ UNCHANGED <<storeVars, storageVars, credVars, pureVars, config, wpc, clock, last_call, wake, queue, result_rx,
                       results, cur, credential, inflight, sent, log, last_end, panic_at>>

DropResultReceiver ==
    /\ result_rx
    /\ result_rx' = FALSE
    /\ UNCHANGED <<storeVars, storageVars, credVars, pureVars, config, wpc, clock, last_call, wake, queue, senders,
                   results, cur, credential, inflight, sent, log, last_end, panic_at>>

ClockTick ==
    /\ clock < MaxClock
    /\ clock' = clock + 1
    /\ UNCHANGED <<storeVars, storageVars, credVars, pureVars, config, wpc, last_call, wake, queue, senders, result_rx,
                   results, cur, credential, inflight, sent, log, last_end, panic_at>>

NextWorker ==
    \/ WorkerStart
    \/ WorkerReceive
    \/ WorkerShutdown
    \/ WorkerWake
    \/ WorkerStamp
    \/ WorkerResponse
    \/ Enqueue
    \/ DropSender
    \/ DropResultReceiver
    \/ ClockTick

SpecWorker == InitWorker /\ [][NextWorker]_vars

\* The worker thread is scheduled whenever it can take a step, a sleep ends
\* once its time has come, a remote call returns or times out (ica.rs:86-92)
\* and time passes.  Nothing is assumed of the producers or the consumer.
SpecWorkerFair ==
    /\ InitWorker
    /\ [][NextWorker]_vars
    /\ WF_vars(WorkerStart)
    /\ WF_vars(WorkerReceive)
    /\ WF_vars(WorkerWake)
    /\ WF_vars(WorkerStamp)
    /\ WF_vars(WorkerResponse)
    /\ WF_vars(ClockTick)

(***************************************************************************)
(* A result's way from the worker into the store: the worker classifies a  *)
(* request (worker.rs:49-100, with rate_limit_secs = 0 nothing sleeps) and *)
(* the owner of the result channel hands each AnalysisResult to            *)
(* store_result.                                                           *)
(***************************************************************************)
InitLearn ==
    /\ kb = FreshKnowledgeBase(0)
    /\ now = 0
    /\ lastOp = NoOp
    /\ streak = [f \in Fingerprints |-> 0]
    /\ reached = {}
    /\ config = [LearningConfigDefault EXCEPT !.rate_limit_secs = 0]
    /\ wpc = "recv"
    /\ clock = 0
    /\ last_call = 0
    /\ wake = 0
    /\ queue = <<>>
    /\ senders = Producers
    /\ result_rx = TRUE
    /\ results = <<>>
    /\ cur = None
    /\ credential = "unset"
    /\ inflight = 0
    /\ sent = 0
    /\ log = <<>>
    /\ last_end = -1
    /\ panic_at = "none"
    /\ StorageIdle
    /\ CredentialIdle
    /\ PureIdle

\* worker.rs:49-100 for one request: the request is taken, is_available()
\* is asked, analyze is called when there is a key, and the result is sent.
\* log keeps, for each result in the channel, what it was made from.
ClassifyRequest ==
    \E p \in senders, request \in Requests, fetched \in {"key", "nokey"},
       remote \in LearnOutcomes :
        /\ AtReceive(wpc)
        /\ sent < MaxRequests
        /\ sent' = sent + 1
        /\ last_call' = clock
        /\ credential' = get_service_key(credential, fetched)
        /\ LET available == is_available(credential')
               analyzed == IF available THEN AnalysisOf(remote) ELSE NotAnalyzed
               panics == available /\ (PromptFor(request.context).panic
                                         \/ analyzed.kind = "panic")
           IN IF panics
              THEN /\ wpc' = "panicked"
                   /\ panic_at' = IF PromptFor(request.context).panic
                                  THEN "to_prompt" ELSE "extract_json"
                   /\ UNCHANGED <<results, log>>
              ELSE /\ results' = Sent(results, result_rx,
                                      AnalysisResult(request,
                                          Classified(available, analyzed, request.context)))
                   /\ log' = Append(log, [request |-> request, available |-> available,
                                          remote |-> IF available THEN remote
                                                     ELSE RemoteError])
                   /\ UNCHANGED <<wpc, panic_at>>
        /\ UNCHANGED <<storeVars, storageVars, credVars, pureVars, config, clock, wake, queue, senders,
                       result_rx, cur, inflight, last_end>>

\* The owner of the result channel takes the next AnalysisResult and calls
\* store_result with its fields.
StoreWorkerResult ==
    /\ results # <<>>
    /\ kb' = store_result(kb, Head(results).fingerprint, Head(results).response,
                          Head(results).source, now)
    /\ results' = Tail(results)
    /\ log' = Tail(log)
    /\ UNCHANGED <<now, lastOp, streak, reached, storageVars, credVars, pureVars, config, wpc, clock, last_call,
                   wake, queue, senders, result_rx, cur, credential, inflight, sent,
                   last_end, panic_at>>

NextLearn ==
    \/ ClassifyRequest
    \/ StoreWorkerResult

SpecLearn == InitLearn /\ [][NextLearn]_vars

(***************************************************************************)
(* The pure functions of ica.rs and fallback.rs, each applied to an input  *)
(* drawn from the sets below.                                              *)
(***************************************************************************)
S_my_stack == <<"m", "y", "-", "s", "t", "a", "c", "k">>
S_my_project == <<"m", "y", "-", "p", "r", "o", "j", "e", "c", "t">>
S_redis_cache == <<"r", "e", "d", "i", "s", "-", "c", "a", "c", "h", "e">>
S_prose_unicode == <<"C3", "C3", ":", " ">>

\* Objects whose string values hold braces, escaped quotes and backslashes.
OBJ_brace_in_string == <<"{", "\"", "a", "\"", ":", " ", "\"", "x", "}", "y", "\"", "}">>
OBJ_escaped_quote == <<"{", "\"", "a", "\"", ":", " ", "\"", "q", "\\", "\"", "}", "{", "\"", "}">>
OBJ_nested == <<"{", "\"", "a", "\"", ":", " ", "{", "\"", "b", "\"", ":", " ", "\"", "}", "\"", "}", "}">>
OBJ_escaped_backslash == <<"{", "\"", "a", "\"", ":", " ", "\"", "\\", "\\", "\"", ",", " ", "\"", "b", "\"", ":", " ", "\"", "{", "\"", "}">>
\* The same with a two-byte character in the string.
OBJ_unicode_brace == <<"{", "\"", "a", "\"", ":", " ", "\"", "E2", "}", "\"", "}">>

StringBraceObjects ==
    {OBJ_brace_in_string, OBJ_escaped_quote, OBJ_nested, OBJ_escaped_backslash,
     OBJ_unicode_brace}

Objects == StringBraceObjects \cup {RenderJson(DOC_good), RenderJson(DOC_unicode)}

\* Texts without an opening brace.
NoBraceTexts ==
    { <<>>, S_Hope, <<" ", " ", "\n">>, <<"}">>,
      <<"[", "1", ",", " ", "2", "]">>,
      <<"BT", "BT", "BT", "j", "s", "o", "n", "\n", "h", "e", "l", "l", "o", "\n", "BT", "BT", "BT">>,
      <<"BT", "BT", "BT", "j", "s", "o", "n", "BT", "BT", "BT", "\n">> }

Text(before, object, after) == [before |-> before, object |-> object, after |-> after]
TextOf(arg) == arg.before \o arg.object \o arg.after

ExtractCalls ==
    {[fn |-> "extract_json", arg |-> Text(b, o, a), out |-> None] :
        b \in {<<>>, S_Here_is, S_prose_unicode}, o \in Objects, a \in {<<>>, S_Hope}}
    \cup {[fn |-> "extract_json", arg |-> Text(t, <<>>, <<>>), out |-> None] :
              t \in NoBraceTexts}

BraceCalls ==
    {[fn |-> "find_matching_brace", arg |-> Text(<<>>, o, a), out |-> None] :
        o \in Objects, a \in {<<>>, S_Hope}}

FallbackContexts ==
    {[AnalysisContextNew(c) EXCEPT !.container_prefix = prefix, !.container_name = name,
                                   !.project_name = project] :
        c \in {S_node, S_postgres, <<"_", "-">>},
        prefix \in {None, Some(S_dss), Some(S_my_stack)},
        name \in {None, Some(S_dss_app), Some(S_redis_cache), Some(S_dss \o <<"_">>),
                  Some(<<"E2">> \o S_dss_app)},
        project \in {None, Some(S_my_project)}}

FallbackCalls ==
    {[fn |-> "generate_fallback", arg |-> c, out |-> None] : c \in FallbackContexts}

ServiceNames ==
    { <<"a", "p", "p">>,
      <<"a", "p", "i", "-", "a", "p", "p">>,
      <<"r", "e", "d", "i", "s", "-", "c", "a", "c", "h", "e">>,
      <<"w", "e", "b", "-", "d", "b">>,
      <<"A", "p", "p", "-", "S", "e", "r", "v", "e", "r">>,
      <<"A", "P", "I">>,
      <<"w", "o", "r", "k", "e", "r">>,
      <<"c", "r", "o", "n", "-", "a", "p", "i">>,
      <<"n", "g", "i", "n", "x", "-", "w", "e", "b">>,
      <<"z", "z", "z">>,
      <<>>,
      <<"c", "a", "c", "h", "e", "-", "p", "r", "o", "x", "y">>,
      <<"l", "b">>,
      <<"M", "y", "D", "B">>,
      <<"s", "e", "r", "v", "i", "c", "e">>,
      <<"c", "l", "i", "e", "n", "t", "-", "a", "p", "i">>,
      <<"q", "u", "e", "u", "e">> }

InferCalls ==
    {[fn |-> "infer_category_from_name", arg |-> n, out |-> None] : n \in ServiceNames}

Words ==
    { <<"h", "e", "l", "l", "o", "_", "w", "o", "r", "l", "d">>,
      <<"d", "s", "s", "_", "a", "p", "p">>,
      <<"m", "y", "-", "p", "r", "o", "j", "e", "c", "t">>,
      <<"_", "_", "a", "-", "-", "b", " ", " ", "c", "_">>,
      <<>>,
      <<"_">>,
      <<"m", "y", "A", "P", "P", " ", "s", "e", "r", "v", "e", "r">>,
      <<"A", "l", "r", "e", "a", "d", "y", " ", "D", "o", "n", "e">>,
      <<"SZ", "a", "_", "SZ">>,
      <<"E2", "x", "-", "y">>,
      <<"9", "l", "i", "v", "e", "s">>,
      <<"a">>,
      <<" ", "x">>,
      <<"H", "e", "l", "l", "o", " ", "W", "o", "r", "l", "d">> }

\* The calls below are made twice: again holds the result of the second call.
CapitalizeCalls ==
    {[fn |-> "capitalize_words", arg |-> w, out |-> None, again |-> None] : w \in Words}

PopulateCalls ==
    {[fn |-> "populate_builtins", arg |-> b, out |-> None, again |-> None] :
        b \in {KnowledgeBaseDefault, FreshKnowledgeBase(0), KB_learned,
                [KB_learned EXCEPT !.version = 0]}}

\* Fingerprints as the builders of types.rs make them and as field-by-field
\* values, in pairs.
HashedFingerprints ==
    {FP_node_3000, FP_postgres, with_container_prefix(FingerprintNew(S_node), S_dss),
     [command |-> S_node, default_port |-> Some(3000), project_hash |-> None,
      container_prefix |-> None],
     [command |-> S_node, default_port |-> None, project_hash |-> Some(S_my_project),
      container_prefix |-> None]}

HashCalls ==
    {[fn |-> "hash_key", arg |-> [a |-> a, b |-> b], out |-> None, again |-> None] :
        a \in HashedFingerprints, b \in HashedFingerprints}

InitPure ==
    /\ kb = KnowledgeBaseDefault
    /\ now = 0
    /\ lastOp = NoOp
    /\ streak = [f \in Fingerprints |-> 0]
    /\ reached = {}
    /\ config = LearningConfigDefault
    /\ WorkerIdle
    /\ StorageIdle
    /\ CredentialIdle
    /\ \/ call \in ExtractCalls
       \/ call \in BraceCalls
       \/ call \in FallbackCalls
       \/ call \in InferCalls
       \/ call \in CapitalizeCalls
       \/ call \in PopulateCalls
       \/ call \in HashCalls

Returns(value) ==
    /\ call.out = None
    /\ call' = [call EXCEPT !.out = Some(value)]
    /\ UNCHANGED <<storeVars, config, workerVars, storageVars, credVars>>

Done(fn) == call.fn = fn /\ IsSome(call.out)

ExtractJson ==
    /\ call.fn = "extract_json"
    /\ Returns(extract_json(TextOf(call.arg)))

FindMatchingBrace ==
    /\ call.fn = "find_matching_brace"
    /\ Returns(find_matching_brace(TextOf(call.arg)))

GenerateFallback ==
    /\ call.fn = "generate_fallback"
    /\ Returns(generate_fallback(call.arg))

InferCategoryFromName ==
    /\ call.fn = "infer_category_from_name"
    /\ Returns(infer_category_from_name(call.arg))

\* The same call once more, on the first result or at a later moment.
ReturnsAgain(value) ==
    /\ IsSome(call.out)
    /\ call.again = None
    /\ call' = [call EXCEPT !.again = Some(value)]
    /\ UNCHANGED <<storeVars, config, workerVars, storageVars, credVars>>

CapitalizeWords ==
    /\ call.fn = "capitalize_words"
    /\ Returns(capitalize_words(call.arg))

CapitalizeWordsAgain ==
    /\ call.fn = "capitalize_words"
    /\ ReturnsAgain(capitalize_words(Unwrap(call.out)))

\* builtin.rs:9-12: the timestamp of the entries is the time of the call.
PopulateBuiltins ==
    /\ call.fn = "populate_builtins"
    /\ Returns(populate_builtins(call.arg, now))

PopulateBuiltinsAgain ==
    /\ call.fn = "populate_builtins"
    /\ ReturnsAgain(populate_builtins(Unwrap(call.out), now))

HashKey ==
    /\ call.fn = "hash_key"
    /\ Returns(<<hash_key(call.arg.a), hash_key(call.arg.b)>>)

HashKeyAgain ==
    /\ call.fn = "hash_key"
    /\ ReturnsAgain(<<hash_key(call.arg.a), hash_key(call.arg.b)>>)

NextPure ==
    \/ CapitalizeWords
    \/ CapitalizeWordsAgain
    \/ PopulateBuiltins
    \/ PopulateBuiltinsAgain
    \/ HashKey
    \/ HashKeyAgain
    \/ Tick
    \/ ExtractJson
    \/ FindMatchingBrace
    \/ GenerateFallback
    \/ InferCategoryFromName

SpecPure == InitPure /\ [][NextPure]_vars

\* The step is the store operation op (Tick alone leaves lastOp as it was).
Did(op) == lastOp'.op = op /\ now' = now

\* Maps m and n agree on every key but h.
SameExcept(m, n, h) ==
    /\ DOMAIN m \ {h} = DOMAIN n \ {h}
    /\ \A k \in DOMAIN m \ {h} : m[k] = n[k]

(***************************************************************************)
(* C1.  Mutual exclusion: starting from a knowledge base in which no hash  *)
(* key is in both maps, after any sequence of record_sighting,             *)
(* store_result and cleanup_stale_pending calls no hash key is present in  *)
(* both entries and pending_analysis.                                      *)
(***************************************************************************)
C1_MutualExclusion ==
    DOMAIN kb.entries \cap DOMAIN kb.pending_analysis = {}

\* A store_result has just moved a pending fingerprint into entries.
C1_Witness ==
    /\ lastOp.op = "store_result"
    /\ lastOp.pre.pending > 0
    /\ hash_key(lastOp.fingerprint) \in DOMAIN kb.entries
    /\ DOMAIN kb.pending_analysis # {}

(***************************************************************************)
(* C2.  Promotion threshold: for every min_sightings >= 2, the first       *)
(* record_sighting of a fingerprint with no KnowledgeEntry and no          *)
(* PendingEntry, while the pending map has room, returns no context and    *)
(* creates a PendingEntry with sightings = 1; with no store_result or      *)
(* cleanup in between, the k-th record_sighting returns no context for     *)
(* every k < min_sightings and returns the context at k = min_sightings.   *)
(* streak counts the calls independently of the entry's own counter.       *)
(***************************************************************************)
C2_PromotionThreshold ==
    LET f == lastOp.fingerprint
        h == hash_key(f)
        k == streak[f]
    IN (lastOp.op = "record_sighting" /\ config.min_sightings >= 2 /\ k >= 1) =>
          /\ h \in DOMAIN kb.pending_analysis
          /\ k = 1 => lastOp.ret = None /\ kb.pending_analysis[h].sightings = 1
          /\ k < config.min_sightings => lastOp.ret = None
          /\ k = config.min_sightings =>
                 lastOp.ret = Some(kb.pending_analysis[h].context)

\* The third sighting under min_sightings = 3 has returned the context.
C2_Witness ==
    /\ lastOp.op = "record_sighting"
    /\ config.min_sightings = 3
    /\ streak[lastOp.fingerprint] = 3
    /\ IsSome(lastOp.ret)

(***************************************************************************)
(* C3.  store_result(fingerprint, response, provenance), in any store      *)
(* state, removes the PendingEntry under the fingerprint's hash key if one *)
(* exists, leaves exactly one KnowledgeEntry under that key built from the *)
(* response and provenance, whose sightings equals the removed             *)
(* PendingEntry's sightings or 1 if there was none, and changes no other   *)
(* key of either map.                                                      *)
(***************************************************************************)
C3_StoreResult ==
    [][Did("store_result") =>
          LET f == lastOp'.fingerprint
              h == hash_key(f)
              r == Unwrap(lastOp'.response)
          IN /\ h \notin DOMAIN kb'.pending_analysis
             /\ h \in DOMAIN kb'.entries
             /\ kb'.entries[h] =
                    [fingerprint |-> f,
                     display_name |-> r.display_name,
                     description |-> r.description,
                     category |-> r.category,
                     group_id |-> r.group_hint,
                     confidence |-> r.confidence,
                     source |-> lastOp'.source,
                     sightings |-> IF h \in DOMAIN kb.pending_analysis
                                   THEN kb.pending_analysis[h].sightings ELSE 1,
                     updated_at |-> now]
             /\ SameExcept(kb.entries, kb'.entries, h)
             /\ SameExcept(kb.pending_analysis, kb'.pending_analysis, h)
             /\ kb'.version = kb.version]_vars

\* A store_result has replaced a PendingEntry seen more than once while another
\* fingerprint was pending.
C3_Witness ==
    /\ lastOp.op = "store_result"
    /\ lastOp.pre.pending > 1
    /\ DOMAIN kb.pending_analysis # {}
    /\ kb.entries[hash_key(lastOp.fingerprint)].sightings = lastOp.pre.pending

BetweenRequests == wpc \in {"recv", "done", "panicked"}

\* The step is the worker stamping last_call: a classification starts.
Stamps == wpc = "stamp" /\ wpc' # "stamp"

\* C4 as stated (refuted): whenever the worker is between requests and the
\* result channel has its receiver, the results pushed so far carry, one for
\* one and in order, the fingerprints of the requests taken so far.
C4_AsClaimed ==
    (result_rx /\ BetweenRequests) =>
        /\ Len(results) = Len(log)
        /\ \A i \in 1..Len(results) :
               results[i].fingerprint = log[i].request.fingerprint

\* C5: every result on the result channel is routed by the availability of the
\* remote classifier and the outcome of analyze for its request: it is
\* ApiLearned exactly when the classifier was available and analyze succeeded,
\* and then carries the response analyze returned; when analyze failed, and
\* when the classifier was unavailable (analyze is then not called), it is the
\* fallback of the request's context, marked Heuristic.
C5_ProvenanceRouting ==
    /\ wpc = "call" => is_available(credential) /\ log[Len(log)].available
    /\ \A i \in 1..Len(log) :
           ~log[i].available => log[i].analyzed = NotAnalyzed
    /\ Len(results) = Cardinality({i \in 1..Len(log) : log[i].delivered})
    /\ \A i \in 1..Len(results) :
           LET r == results[i]
               e == log[i]
               succeeded == e.available /\ e.analyzed.kind = "ok"
           IN /\ e.delivered
              /\ r.fingerprint = e.request.fingerprint
              /\ r.source = "ApiLearned" <=> succeeded
              /\ succeeded => r.response = Unwrap(e.analyzed.response)
              /\ ~succeeded =>
                     /\ r.source = "Heuristic"
                     /\ r.response = FallbackFor(e.request.context)

\* The channel holds a result learned from the API and the fallback result of
\* a request whose analyze call failed.
C5_Witness ==
    /\ \E i \in 1..Len(results) : results[i].source = "ApiLearned"
    /\ \E j \in 1..Len(results) :
           /\ log[j].available
           /\ log[j].analyzed.kind = "err"
           /\ results[j].source = "Heuristic"

\* C6 as stated (refuted): once the worker has taken a request, it has not
\* stopped while a producer still holds a sender of the request channel.
C6_AsClaimed ==
    (log # <<>> /\ senders # {}) => wpc \notin {"done", "panicked"}

\* C7: whatever the producers do, at most one analyze call is in progress at
\* any moment: the worker is the only caller and takes the next request only
\* after the call for the current one has returned.
C7_Serialization ==
    /\ inflight \in {0, 1}
    /\ inflight = 1 <=> wpc = "call"
    /\ wpc = "call" => IsSome(cur)

\* An analyze call is out while two producers hold senders and a further
\* request waits in the channel.
C7_Witness ==
    /\ inflight = 1
    /\ wpc = "call"
    /\ queue # <<>>
    /\ Cardinality(senders) >= 2

\* C8 as stated (refuted): when a classification starts, at least
\* rate_limit_secs have passed since the previous classification ended.
C8_AsClaimed ==
    [][(Stamps /\ last_end >= 0) => clock - last_end >= config.rate_limit_secs]_vars

\* C8 (amended): when the classification of a second or later request starts,
\* at least rate_limit_secs have passed since the previous classification
\* started, that is since the worker last stamped last_call.
C8_RateLimit ==
    [][(Stamps /\ Len(log) >= 2) => clock - last_call >= config.rate_limit_secs]_vars

\* The second request was put to sleep by the rate limit and its call is out.
C8_Witness ==
    /\ Len(log) = 2
    /\ log[2].slept
    /\ wpc = "call"
    /\ config.rate_limit_secs > 0

\* C9 as stated (refuted): for every rate_limit_secs the worker gets through
\* its startup and takes its first request without sleeping.
C9_AsClaimed ==
    /\ panic_at # "startup"
    /\ log # <<>> => ~log[1].slept

\* C11: with the pending map holding max_pending entries (or more), a
\* record_sighting of a fingerprint that has neither a KnowledgeEntry nor a
\* PendingEntry leaves the knowledge base as it was and returns no context;
\* a record_sighting of a fingerprint that is pending is counted all the same
\* and returns the context once the count has reached min_sightings.
C11_BackpressureDrop ==
    [][(Did("record_sighting")
          /\ Cardinality(DOMAIN kb.pending_analysis) >= config.max_pending) =>
          LET f == lastOp'.fingerprint
              h == hash_key(f)
          IN /\ Unknown(kb, f) => kb' = kb /\ lastOp'.ret = None
             /\ h \in DOMAIN kb.pending_analysis =>
                    /\ h \in DOMAIN kb'.pending_analysis
                    /\ kb'.pending_analysis[h].sightings =
                           kb.pending_analysis[h].sightings + 1
                    /\ IsSome(lastOp'.ret) <=>
                           kb'.pending_analysis[h].sightings >= config.min_sightings]_vars

\* A sighting of an unknown fingerprint has just been dropped by a full
\* pending map.
C11_Witness ==
    /\ lastOp.op = "record_sighting"
    /\ Unknown(kb, lastOp.fingerprint)
    /\ lastOp.ret = None
    /\ Cardinality(DOMAIN kb.pending_analysis) = config.max_pending
    /\ config.max_pending > 0

\* C12: a record_sighting of a fingerprint that has a KnowledgeEntry adds
\* exactly 1 to that entry's sightings, returns no context, and leaves the
\* entry's other fields, every other entry and the pending map as they were.
C12_KnownSighting ==
    [][(Did("record_sighting") /\ hash_key(lastOp'.fingerprint) \in DOMAIN kb.entries) =>
          LET h == hash_key(lastOp'.fingerprint) IN
          /\ h \in DOMAIN kb'.entries
          /\ kb'.entries[h] = [kb.entries[h] EXCEPT !.sightings = @ + 1]
          /\ SameExcept(kb.entries, kb'.entries, h)
          /\ kb'.pending_analysis = kb.pending_analysis
          /\ kb'.version = kb.version
          /\ lastOp'.ret = None]_vars

\* A known fingerprint has been sighted while another one was pending.
C12_Witness ==
    /\ lastOp.op = "record_sighting"
    /\ lastOp.pre.known
    /\ kb.entries[hash_key(lastOp.fingerprint)].sightings >= 2
    /\ DOMAIN kb.pending_analysis # {}

\* C13 as stated (refuted): no step changes anything but the sightings of a
\* KnowledgeEntry that exists, and no step lowers its sightings.
C13_AsClaimed ==
    [][\A h \in DOMAIN kb.entries :
           /\ h \in DOMAIN kb'.entries
           /\ [kb'.entries[h] EXCEPT !.sightings = 0]
                  = [kb.entries[h] EXCEPT !.sightings = 0]
           /\ kb'.entries[h].sightings >= kb.entries[h].sightings]_vars

\* C14: no step takes a hash key out of the entries map.
C14_EntriesNeverDeleted ==
    [][DOMAIN kb.entries \subseteq DOMAIN kb'.entries]_vars

\* Entries stored by store_result and seeded builtins have come through a
\* cleanup that dropped a pending entry.
C14_Witness ==
    /\ lastOp.op = "cleanup_stale_pending"
    /\ lastOp.ages # {}
    /\ DOMAIN kb.pending_analysis = {}
    /\ \E h \in DOMAIN kb.entries : kb.entries[h].source # "Builtin"
    /\ \E h \in DOMAIN kb.entries : kb.entries[h].source = "Builtin"

\* C15: a step that adds a hash key to the entries map is a store_result for
\* the fingerprint of that key; record_sighting and cleanup_stale_pending add
\* none.
C15_KnownOnlyByStoreResult ==
    [][\A h \in DOMAIN kb'.entries \ DOMAIN kb.entries :
           /\ Did("store_result")
           /\ hash_key(lastOp'.fingerprint) = h]_vars

\* A fingerprint outside the builtin catalog has been promoted by
\* record_sighting and still has no KnowledgeEntry.
C15_Witness ==
    /\ lastOp.op = "record_sighting"
    /\ IsSome(lastOp.ret)
    /\ lastOp.fingerprint = FP_node_3000
    /\ hash_key(FP_node_3000) \notin DOMAIN kb.entries
    /\ hash_key(FP_node_3000) \in DOMAIN kb.pending_analysis

\* C16 as stated (refuted): a PendingEntry leaves the pending map only by a
\* store_result for its fingerprint.
C16_AsClaimed ==
    [][\A h \in DOMAIN kb.pending_analysis \ DOMAIN kb'.pending_analysis :
           /\ Did("store_result")
           /\ hash_key(lastOp'.fingerprint) = h]_vars

\* C16 (amended): record_sighting removes no PendingEntry and changes no stored
\* context, and the call that returns the context returns the stored one and
\* leaves the entry in the map; a PendingEntry leaves the map only by a
\* store_result for its fingerprint or by a cleanup_stale_pending.
C16_PromotionKeepsPending ==
    [][/\ Did("record_sighting") =>
              /\ \A h \in DOMAIN kb.pending_analysis :
                     /\ h \in DOMAIN kb'.pending_analysis
                     /\ kb'.pending_analysis[h].context = kb.pending_analysis[h].context
              /\ IsSome(lastOp'.ret) =>
                     /\ hash_key(lastOp'.fingerprint) \in DOMAIN kb'.pending_analysis
                     /\ lastOp'.ret =
                            Some(kb'.pending_analysis[hash_key(lastOp'.fingerprint)].context)
       /\ \A h \in DOMAIN kb.pending_analysis \ DOMAIN kb'.pending_analysis :
              \/ Did("store_result") /\ hash_key(lastOp'.fingerprint) = h
              \/ Did("cleanup_stale_pending")]_vars

\* The context has been returned for a second time: the entry promoted by an
\* earlier sighting was still pending.
C16_Witness ==
    /\ lastOp.op = "record_sighting"
    /\ IsSome(lastOp.ret)
    /\ lastOp.pre.pending >= config.min_sightings
    /\ lastOp.pre.pending >= 2
    /\ hash_key(lastOp.fingerprint) \in DOMAIN kb.pending_analysis

\* A text that is no complete knowledge base: cut before its closing brace,
\* or without its version or its entries.
Malformed(text) ==
    \/ Len(text) < 2
    \/ text[1].tok # "{"
    \/ text[Len(text)].tok # "}"
    \/ \A i \in 1..Len(text) : text[i].tok # "version"
    \/ \A i \in 1..Len(text) : text[i].tok # "entries"

\* C17 as stated (refuted): when the process has crashed inside a
\* save_knowledge_base over a valid file, the file holds the complete text it
\* held before the save began, or the complete text of the knowledge base
\* being saved.
C17_AsClaimed ==
    (spc = "crashed" /\ saving.active
        /\ saving.prev.exists /\ ~Malformed(saving.prev.text)) =>
        /\ file.exists
        /\ file.text \in {saving.prev.text, saving.text}

\* C18: load_knowledge_base on a file that is malformed returns an error, as
\* it does on one it cannot read; when it returns that error the process has
\* no knowledge base from it, the file is as it was and no save has begun.
C18_LoadRejectsMalformed ==
    [][(spc = "start" /\ file.exists /\ spc' \notin {"start", "crashed"}) =>
          /\ Malformed(file.text) => loaded'.kind = "err"
          /\ loaded'.kind = "err" =>
                 /\ spc' = "failed"
                 /\ file' = file
                 /\ kb' = kb
                 /\ ~saving'.active]_vars

\* A load has failed on the text that was cut short.
C18_Witness ==
    /\ spc = "failed"
    /\ loaded.kind = "err"
    /\ loaded.error = "parse"
    /\ file.exists
    /\ Len(file.text) = 3

\* C19: a load_knowledge_base that found no file and returns a knowledge base
\* returns one at CURRENT_VERSION whose entries are exactly the builtin
\* catalog and whose pending map is empty, and the file then holds that
\* knowledge base; one that found a file returns the entries of that file,
\* nothing added.
C19_LoadWithNoFile ==
    [][(loaded.kind # "ok" /\ loaded'.kind = "ok") =>
          /\ loaded'.found = "absent" =>
                 /\ kb'.version = CURRENT_VERSION
                 /\ kb'.pending_analysis = EmptyMap
                 /\ DOMAIN kb'.entries =
                        {hash_key(BuiltinCatalog(now)[i].fingerprint) :
                             i \in 1..Len(BuiltinCatalog(now))}
                 /\ \A i \in 1..Len(BuiltinCatalog(now)) :
                        kb'.entries[hash_key(BuiltinCatalog(now)[i].fingerprint)]
                            = BuiltinCatalog(now)[i]
                 /\ file'.exists
                 /\ file'.text = Serialize(kb')
          /\ loaded'.found = "file" =>
                 LET text == IF saving.active THEN saving.prev.text ELSE file.text
                 IN kb'.entries =
                        text[CHOOSE i \in 1..Len(text) : text[i].tok = "entries"].entries]_vars

\* The load that found no file has returned the seeded knowledge base and the
\* file holds it.
C19_Witness ==
    /\ spc = "ready"
    /\ loaded.kind = "ok"
    /\ loaded.found = "absent"
    /\ lastOp.op = "none"
    /\ file.exists
    /\ Deserialize(file.text).kb = kb
    /\ DOMAIN kb.entries # {}

\* C20: however the callers of is_available() and analyze() interleave, the
\* setec fetch is started at most once, and every call of get_service_key
\* returns the one value the cell was set to.
C20_CredentialSingleInit ==
    /\ fetches <= 1
    /\ Cardinality(observed) <= 1
    /\ \A c \in Callers :
           callers[c].seen # "none" => callers[c].seen = credential /\ credential # "unset"
    /\ credential # "unset" => fetches = 1

\* The calls overlapped: one thread ran the fetch and has its value, another
\* arrived while the fetch ran and is still blocked on the cell, now set.
C20_Witness ==
    /\ fetches = 1
    /\ credential = "nokey"
    /\ \E c \in Callers : callers[c].pc = "blocked"
    /\ \E c \in Callers : callers[c].pc = "returned" /\ callers[c].seen = credential

\* C21 as stated (refuted): the worker has terminated only when every sender
\* of the request channel was dropped, the channel is empty and the request
\* it last took has been classified.
C21_AsClaimed ==
    wpc \in {"done", "panicked"} =>
        /\ senders = {}
        /\ queue = <<>>
        /\ cur = None

\* C22 as stated (refuted): a result made, with the service available, from a
\* well-formed answer whose category is one of the eight tags of the prompt
\* is marked ApiLearned.
C22_AsClaimed ==
    \A i \in 1..Len(results) :
        (log[i].available /\ log[i].remote.text \in CategoryTexts) =>
            results[i].source = "ApiLearned"

\* C23 as stated (refuted): every KnowledgeEntry of the store has a
\* confidence between 0.0 and 1.0 (in tenths, between 0 and 10), whatever
\* worker results were stored.
C23_AsClaimed ==
    \A h \in DOMAIN kb.entries : kb.entries[h].confidence \in 0..10

\* C24: a result made, with the service available, from an answer that lacks
\* display_name, description, category or confidence, or that has a value of
\* the wrong type in one of the five fields, is the fallback of the request's
\* context, whole, marked Heuristic.
C24_ParseAllOrNothing ==
    \A i \in 1..Len(results) :
        (log[i].available /\ log[i].remote.text \in BrokenTexts) =>
            /\ results[i].source = "Heuristic"
            /\ results[i].response = generate_fallback(log[i].request.context)
            /\ results[i].fingerprint = log[i].request.fingerprint

\* The channel holds the fallback result of a request whose answer had a
\* string for the confidence, and that of one whose answer had no category.
C24_Witness ==
    /\ Len(results) = 2
    /\ \A i \in 1..2 : log[i].available /\ results[i].source = "Heuristic"
    /\ log[1].remote.text = RenderJson(DocWith(K_confidence, WrongTyped(K_confidence)))
    /\ log[2].remote.text = RenderJson(DocWithout(K_category))

\* C25 as stated (refuted): for a text made of prose, a JSON object and
\* prose, extract_json returns the text of the object.
C25_AsClaimed ==
    (/\ Done("extract_json")
     /\ call.arg.before # <<>> /\ call.arg.object # <<>> /\ call.arg.after # <<>>) =>
        Unwrap(call.out) = [kind |-> "ok", s |-> call.arg.object]

\* C26 as stated (refuted): for a text without an opening brace extract_json
\* fails with the no-JSON-found error.
C26_AsClaimed ==
    (Done("extract_json") /\ ~Contains(TextOf(call.arg), <<"{">>)) =>
        Unwrap(call.out) = ExtractErr

\* C26 (amended): for a text with neither an opening brace nor a json-tagged
\* fence extract_json fails with the no-JSON-found error.
C26_NoBraceNoFence ==
    (/\ Done("extract_json")
     /\ ~Contains(TextOf(call.arg), <<"{">>)
     /\ ~Contains(TextOf(call.arg), S_fence_json)) =>
        Unwrap(call.out) = ExtractErr

\* extract_json has failed on a text that is a lone closing brace.
C26_Witness ==
    /\ Done("extract_json")
    /\ TextOf(call.arg) = <<"}">>
    /\ Unwrap(call.out).kind = "err"

\* C27 as stated (refuted): on an object whose strings hold braces and
\* escaped quotes find_matching_brace returns the index of the object's last
\* character, its closing brace, and extract_json returns the object.
C27_AsClaimed ==
    /\ Done("find_matching_brace") =>
           Unwrap(call.out) = Some(Len(call.arg.object) - 1)
    /\ (Done("extract_json") /\ call.arg.object \in StringBraceObjects) =>
           Unwrap(call.out) = [kind |-> "ok", s |-> call.arg.object]

\* C28: generate_fallback returns, for every context, a response with
\* confidence 0.5 (5 tenths) whose group_hint is the context's container
\* prefix, none when the context has none.
C28_FallbackTotal ==
    Done("generate_fallback") =>
        LET r == Unwrap(call.out) IN
        /\ r.confidence = 5
        /\ r.group_hint = call.arg.container_prefix
        /\ r.category \in {CategoryNames[i].category : i \in 1..Len(CategoryNames)}
        /\ DOMAIN r = {"display_name", "description", "category", "group_hint", "confidence"}

\* generate_fallback has returned for a context with a prefix and a container
\* name that starts with a two-byte character.
C28_Witness ==
    /\ Done("generate_fallback")
    /\ call.arg.container_prefix = Some(S_my_stack)
    /\ call.arg.container_name = Some(<<"E2">> \o S_dss_app)
    /\ Unwrap(call.out).group_hint = Some(S_my_stack)

\* C29: the display name of the fallback comes from the first rule that
\* applies: container name with prefix (capitalized prefix, space, capitalized
\* container name less its leading prefix_), container name alone, project
\* name with the command in parentheses, the command.  dss_app with prefix
\* dss gives Dss App.
C29_FallbackNaming ==
    Done("generate_fallback") =>
        LET c == call.arg
            lead == Unwrap(c.container_prefix) \o <<"_">>
            container == Unwrap(c.container_name)
            service == IF StartsWith(container, lead)
                       THEN SubSeq(container, Len(lead) + 1, Len(container))
                       ELSE container
            expected ==
                IF c.container_name # None /\ c.container_prefix # None
                THEN capitalize_words(Unwrap(c.container_prefix)) \o <<" ">>
                         \o capitalize_words(service)
                ELSE IF c.container_name # None THEN capitalize_words(container)
                ELSE IF c.project_name # None
                THEN capitalize_words(Unwrap(c.project_name)) \o <<" ", "(">>
                         \o c.command \o <<")">>
                ELSE capitalize_words(c.command)
        IN /\ Unwrap(call.out).display_name = expected
           /\ (c.container_name = Some(S_dss_app) /\ c.container_prefix = Some(S_dss)) =>
                  Unwrap(call.out).display_name = S_Dss_App

\* The context has every source of a name and the container rule has won.
C29_Witness ==
    /\ Done("generate_fallback")
    /\ call.arg.container_prefix = Some(S_dss)
    /\ call.arg.container_name = Some(S_dss_app)
    /\ call.arg.project_name = Some(S_my_project)
    /\ Unwrap(call.out).display_name = S_Dss_App

\* C30: infer_category_from_name gives the category of the earliest of the
\* groups database, cache, proxy, frontend, backend, infrastructure that has
\* a keyword contained in the lowercased name, and Unknown when none has.
C30_FirstMatchWins ==
    Done("infer_category_from_name") =>
        LET lower == ToLowercase(call.arg)
            groups == << [keys |-> NameDatabase, category |-> "Database"],
                         [keys |-> NameCache, category |-> "Cache"],
                         [keys |-> NameProxy, category |-> "Proxy"],
                         [keys |-> NameFrontend, category |-> "Frontend"],
                         [keys |-> NameBackend, category |-> "Backend"],
                         [keys |-> NameInfrastructure, category |-> "Infrastructure"] >>
            hits == {i \in 1..Len(groups) :
                        \E k \in 1..Len(groups[i].keys) : Contains(lower, groups[i].keys[k])}
        IN /\ Unwrap(call.out) = IF hits = {} THEN "Unknown" ELSE groups[Min(hits)].category
           /\ call.arg = S_redis_cache => Unwrap(call.out) = "Cache"
           /\ Contains(call.arg, <<"a", "p", "p">>) /\ hits \cap {1, 2, 3} = {} =>
                  Unwrap(call.out) = "Frontend"

\* The name api-app holds a backend keyword and a frontend one: Frontend.
C30_Witness ==
    /\ Done("infer_category_from_name")
    /\ call.arg = <<"a", "p", "i", "-", "a", "p", "p">>
    /\ Unwrap(call.out) = "Frontend"

\* The k-th smallest element of a set of numbers.
Nth(S, k) == CHOOSE x \in S : Cardinality({y \in S : y < x}) = k - 1

\* The maximal runs of characters other than `_`, `-` and space, in order.
TokensOf(s) ==
    LET sep(i) == s[i] \in {"_", "-", " "}
        starts == {i \in 1..Len(s) : ~sep(i) /\ (i = 1 \/ sep(i - 1))}
        ends == {i \in 1..Len(s) : ~sep(i) /\ (i = Len(s) \/ sep(i + 1))}
    IN [k \in 1..Cardinality(starts) |-> SubSeq(s, Nth(starts, k), Nth(ends, k))]

\* C31: capitalize_words returns the tokens of its input between `_`, `-` and
\* space, empty ones dropped, each with its first letter uppercased and its
\* other letters as they were, joined by single spaces; applied to its own
\* output it returns that output.
C31_Capitalization ==
    Done("capitalize_words") =>
        LET tokens == TokensOf(call.arg) IN
        /\ Unwrap(call.out) =
               JoinWords([k \in 1..Len(tokens) |->
                             ToUppercase(Head(tokens[k])) \o Tail(tokens[k])], <<" ">>)
        /\ call.arg = <<"h", "e", "l", "l", "o", "_", "w", "o", "r", "l", "d">> =>
               Unwrap(call.out) = <<"H", "e", "l", "l", "o", " ", "W", "o", "r", "l", "d">>
        /\ IsSome(call.again) => call.again = call.out

\* capitalize_words has been applied twice to a text with runs of separators,
\* and the first result, of three words, differs from the text.
C31_Witness ==
    /\ Done("capitalize_words")
    /\ IsSome(call.again)
    /\ call.arg = <<"_", "_", "a", "-", "-", "b", " ", " ", "c", "_">>
    /\ Unwrap(call.out) = <<"A", " ", "B", " ", "C">>

\* C32 as stated (refuted): for a context whose command, container name and
\* project name are non-empty where present, the display name of the fallback
\* is non-empty.
C32_AsClaimed ==
    (/\ Done("generate_fallback")
     /\ call.arg.command # <<>>
     /\ call.arg.container_name # Some(<<>>)
     /\ call.arg.project_name # Some(<<>>)) =>
        Unwrap(call.out).display_name # <<>>

\* An entry map with the timestamps taken out.
Untimed(entries) == [h \in DOMAIN entries |-> [entries[h] EXCEPT !.updated_at = 0]]

\* C33: populate_builtins changes nothing but the entries map, every entry
\* under a key of the catalog is then Builtin with confidence 1.0 and
\* sightings 0, every other entry is as it was, and a second application
\* gives the same entries map, timestamps aside.
C33_SeedingIdempotent ==
    Done("populate_builtins") =>
        LET before == call.arg
            after == Unwrap(call.out)
            seeded == {hash_key(FingerprintNew(c)) : c \in {S_postgres, S_brew}}
        IN /\ after.version = before.version
           /\ after.pending_analysis = before.pending_analysis
           /\ DOMAIN after.entries = DOMAIN before.entries \cup seeded
           /\ \A h \in seeded :
                  /\ after.entries[h].source = "Builtin"
                  /\ after.entries[h].confidence = 10
                  /\ after.entries[h].sightings = 0
           /\ \A h \in DOMAIN before.entries \ seeded :
                  after.entries[h] = before.entries[h]
           /\ IsSome(call.again) =>
                  /\ Untimed(Unwrap(call.again).entries) = Untimed(after.entries)
                  /\ Unwrap(call.again).version = after.version
                  /\ Unwrap(call.again).pending_analysis = after.pending_analysis

\* The store held a learned entry for postgres and a pending one for node;
\* it was seeded, and seeded again at a later time.
C33_Witness ==
    /\ Done("populate_builtins")
    /\ call.arg = KB_learned
    /\ IsSome(call.again)
    /\ Unwrap(call.again).entries # Unwrap(call.out).entries
    /\ Unwrap(call.out).entries # call.arg.entries

C35_AsClaimed ==
    [][(Did("record_sighting") /\ lastOp'.fingerprint \in reached) =>
          IsSome(lastOp'.ret)]_vars

\* C35 (amended): a record_sighting for a fingerprint whose pending entry
\* has reached min_sightings and is still pending (no store_result and no
\* cleanup_stale_pending has removed it) returns the entry's context, every
\* time; nothing marks the entry as already submitted.
C35_RepeatedPromotion ==
    [][Did("record_sighting") =>
          LET h == hash_key(lastOp'.fingerprint) IN
          (/\ h \notin DOMAIN kb.entries
           /\ h \in DOMAIN kb.pending_analysis
           /\ kb.pending_analysis[h].sightings >= config.min_sightings) =>
              /\ lastOp'.ret = Some(kb.pending_analysis[h].context)
              /\ h \in DOMAIN kb'.pending_analysis]_vars

\* The context of a fingerprint was returned by a sighting that found the
\* entry at min_sightings or above: it had been returned before.
C35_Witness ==
    /\ lastOp.op = "record_sighting"
    /\ IsSome(lastOp.ret)
    /\ ~lastOp.pre.known
    /\ lastOp.pre.pending >= config.min_sightings
    /\ config.min_sightings = 2
    /\ streak[lastOp.fingerprint] = 3

\* C37: the pending map never holds more than max_pending entries, whatever
\* record_sighting, store_result and cleanup_stale_pending calls are made on
\* a store that starts with none.
C37_PendingBound ==
    Cardinality(DOMAIN kb.pending_analysis) <= config.max_pending

\* With max_pending = 1 and one fingerprint pending, the sighting of another,
\* unknown fingerprint was dropped and the map is at its bound.
C37_Witness ==
    /\ config.max_pending = 1
    /\ lastOp.op = "record_sighting"
    /\ lastOp.fingerprint = FP_postgres
    /\ ~lastOp.pre.known
    /\ DOMAIN kb.pending_analysis = {hash_key(FP_node_3000)}

\* C38 as stated (refuted): record_sighting returns a context on exactly the
\* calls after which the fingerprint has a pending entry with at least
\* min_sightings sightings.
C38_AsClaimed ==
    [][Did("record_sighting") =>
          LET h == hash_key(lastOp'.fingerprint) IN
          IsSome(lastOp'.ret) <=>
              /\ h \in DOMAIN kb'.pending_analysis
              /\ kb'.pending_analysis[h].sightings >= config.min_sightings]_vars

\* C39: a record_sighting that finds a pending entry adds one to its
\* sightings, sets last_seen to the time of the call and leaves its context,
\* fingerprint and first_seen alone; the entry inserted at a first sighting
\* holds the context of that call; a returned context is the stored one.
C39_PendingFrame ==
    [][Did("record_sighting") =>
          LET f == lastOp'.fingerprint
              h == hash_key(f)
          IN /\ (h \notin DOMAIN kb.entries /\ h \in DOMAIN kb.pending_analysis) =>
                    /\ h \in DOMAIN kb'.pending_analysis
                    /\ kb'.pending_analysis[h] =
                           [kb.pending_analysis[h] EXCEPT
                                !.sightings = @ + 1, !.last_seen = now]
                    /\ kb'.pending_analysis[h].context = kb.pending_analysis[h].context
                    /\ kb'.pending_analysis[h].fingerprint = kb.pending_analysis[h].fingerprint
                    /\ kb'.pending_analysis[h].first_seen = kb.pending_analysis[h].first_seen
                    /\ IsSome(lastOp'.ret) =>
                           lastOp'.ret = Some(kb.pending_analysis[h].context)
             /\ (Unknown(kb, f) /\ h \in DOMAIN kb'.pending_analysis) =>
                    /\ kb'.pending_analysis[h].context = lastOp'.context
                    /\ kb'.pending_analysis[h].first_seen = now
             /\ ~IsSome(lastOp'.ret) \/ h \in DOMAIN kb.pending_analysis]_vars

\* A sighting made later than the first one, with another context than the
\* one stored, returned the stored context; first_seen is the earlier time.
C39_Witness ==
    /\ lastOp.op = "record_sighting"
    /\ IsSome(lastOp.ret)
    /\ lastOp.ret # Some(lastOp.context)
    /\ LET h == hash_key(lastOp.fingerprint) IN
       /\ h \in DOMAIN kb.pending_analysis
       /\ kb.pending_analysis[h].first_seen < kb.pending_analysis[h].last_seen
       /\ lastOp.ret = Some(kb.pending_analysis[h].context)

\* C36 as stated (refuted): once the worker is running (past its startup),
\* the n-th request sent is eventually followed by the n-th result on the
\* result channel, as long as the consumer keeps the receiver; a sleep that
\* ends after the last moment of the model's clock is left out.
C36_AsClaimed ==
    \A n \in 1..MaxRequests :
        (sent >= n /\ wpc \in {"recv", "sleep", "stamp", "call"}) ~>
            \/ Len(results) >= n
            \/ ~result_rx
            \/ wpc = "sleep" /\ wake > MaxClock

\* C40: once the cell holds a failed fetch it holds it for good, whatever a
\* new fetch would return; is_available is false, the worker starts no
\* remote call, and every result it sends from then on is Heuristic.
C40_CredentialFailurePermanent ==
    [][credential = "nokey" =>
          /\ credential' = "nokey"
          /\ ~is_available(credential')
          /\ \A fetched \in {"key", "nokey"} :
                 get_service_key(credential, fetched) = "nokey"
          /\ wpc' # "call"
          /\ inflight' = inflight
          /\ results' # results =>
                 /\ Len(results') = Len(results) + 1
                 /\ results'[Len(results')].source = "Heuristic"]_vars

\* The first fetch failed and the worker has since processed every request
\* of the run: each result is Heuristic.
C40_Witness ==
    /\ credential = "nokey"
    /\ sent = MaxRequests
    /\ Len(results) = MaxRequests
    /\ \A i \in 1..Len(results) : results[i].source = "Heuristic"
    /\ \A i \in 1..Len(log) : ~log[i].available

====
